---- MODULE Spec2Model ----
(***************************************************************************)
(* The streaming extraction engine of the scrapper pipeline                *)
(* (createStreamingExtractor): a p-limit bounded pool of per-domain tasks, *)
(* the processed-domain set, the self-feeding pendingTasks list drained by *)
(* finish() in waves, the incremental lead CSV and the skip log.           *)
(*                                                                         *)
(* Every await of the source is one suspension point: the action named     *)
(* XxxDone is the completion of the awaited operation together with the    *)
(* synchronous code that runs up to the next await.  File effects take     *)
(* place at the completion of the operation that performs them.            *)
(***************************************************************************)
EXTENDS Integers, Sequences, FiniteSets, TLC

\* ---------------------------------------------------------------- bounds
\* number of addDomain calls the discovery sources make in a run
MaxSubmissions == 2
\* largest number of emails (lead rows) one domain yields
MaxEmails == 1
\* snowball.maxNewDomainsPerSource of the modelled run
MaxPerSource == 1

\* ------------------------------------------------------ program constants
DefaultConcurrency == 10
BrowserConcurrencyCap == 2
DefaultSnowballMaxDepth == 1

\* extraction.concurrency left unset in the config
Unset == 0

\* the hostnames of the modelled run; the last one carries a Turkish TLD
Domains == {"a.com", "b.com", "c.com.tr"}
TURKEY_TLDS == {"c.com.tr"}

VARIABLES
    config,            \* options of createStreamingExtractor (fixed in a run)
    processedDomains,  \* Set of domains claimed by a task body
    pendingTasks,      \* array of task promises not yet taken by finish
    tasks,             \* every task created by limit(...): domain, depth, pc, rows
    limitQueue,        \* p-limit's queue of tasks not yet started
    activeCount,       \* p-limit's count of started, unsettled tasks
    allRows,           \* in-memory accumulator of lead rows
    csvInitialized,    \* flag guarding initLeadsCsv
    csvFile,           \* content of the lead CSV, line by line
    skipLog,           \* content of logs/skipped.log, line by line
    logsDir,           \* whether the directory logs/ exists
    runLog,            \* skipped list, errors list, counters
    finishPc,          \* position of finish(): idle until it is called
    batch,             \* the wave finish is awaiting
    submissions,       \* number of addDomain calls made so far
    crawlCalls,        \* per domain, number of crawlDomain invocations
    csvInits,          \* number of completed initLeadsCsv header writes
    waves,             \* number of batches finish has taken from pendingTasks
    call,              \* a function of the pipeline taken alone: its name,
                       \* its arguments and, once it has returned, its result
    retry,             \* one fetchWithRetry call: options, loop index, events
    crawlOpts,         \* one crawlDomain call: strategy, robots rules, links
    crawlPc,           \* position of that crawlDomain call
    toFetch,           \* its Set of URLs (paths of the origin), insertion order
    cache,             \* keys of the page cache
    fetches,           \* per URL, number of network fetches issued
    okFetches,         \* per URL, number of network fetches that succeeded
    pool,              \* per URL, position of its fetchOne in the crawl's pool
    results            \* the URLs of the pages crawlDomain returns

\* the state of the streaming extractor
schedVars == <<config, processedDomains, pendingTasks, tasks, limitQueue,
               activeCount, allRows, csvInitialized, csvFile, skipLog, logsDir,
               runLog, finishPc, batch, submissions, crawlCalls, csvInits, waves>>

\* the state of one crawlDomain call
crawlVars == <<crawlOpts, crawlPc, toFetch, cache, fetches, okFetches, pool, results>>

\* the state of the functions examined on their own
fnVars == <<call, retry>>

\* the state of the parts of the pipeline examined on their own
auxVars == <<fnVars, crawlVars>>

vars == <<schedVars, auxVars>>

\* ---------------------------------------------------------------- helpers
Range(s) == {s[i] : i \in 1..Len(s)}

Min(a, b) == IF a < b THEN a ELSE b

HEADER_LINE == <<"header", 0>>

\* the lead rows of a domain that yielded n emails, one row per email
RowsOf(d, n) == [k \in 1..n |-> <<d, k>>]

\* the exclusion filter that lets every domain through
isTurkeyBasedDomain_Never(d) == FALSE

\* function isTurkeyBasedDomain(domain)
isTurkeyBasedDomain(d) == d \in TURKEY_TLDS

\* the limiter without the cap of the browser strategy
concurrency_NoBrowserCap ==
    IF config.concurrency = Unset
    THEN IF config.useBrowser THEN BrowserConcurrencyCap ELSE DefaultConcurrency
    ELSE config.concurrency

\* const concurrency = useBrowser ? Math.min(c ?? 2, 2) : (c ?? 10)
concurrency ==
    IF config.useBrowser
    THEN Min(IF config.concurrency = Unset THEN BrowserConcurrencyCap
             ELSE config.concurrency, BrowserConcurrencyCap)
    ELSE IF config.concurrency = Unset THEN DefaultConcurrency
         ELSE config.concurrency

snowballMaxDepth == DefaultSnowballMaxDepth

\* the configurations of the modelled runs: every limiter setting with snowball
\* and an output path, and every snowball / output-path setting with the
\* default limiter
Configs ==
    [useBrowser : BOOLEAN, concurrency : {Unset, 1, 3},
     snowballEnabled : {TRUE}, csvPath : {TRUE}]
    \cup [useBrowser : {FALSE}, concurrency : {Unset},
          snowballEnabled : BOOLEAN, csvPath : BOOLEAN]

Settled == {"resolved", "rejected"}

\* tasks that are inside processOne (started by p-limit, not yet settled)
Running == {i \in 1..Len(tasks) : tasks[i].pc \notin ({"queued"} \cup Settled)}

\* claimed: whether the body of the task got past the processed-set check
NewTask(d, depth) ==
    [domain |-> d, depth |-> depth, pc |-> "queued", rows |-> 0, claimed |-> FALSE]

\* no function is examined on its own during a run of the extractor
NoCall == [fn |-> "none"]

\* const FIXED_PATHS = ['/', '/contact', '/about', '/partners'];
FIXED_PATHS == <<"/", "/contact", "/about", "/partners">>

\* same-origin links of the homepage whose path holds one of LINK_KEYWORDS, in
\* document order
LinkOrder == <<"/contact", "/team">>

Paths == Range(FIXED_PATHS) \cup Range(LinkOrder)

\* crawlDomain has not been called
CrawlIdle ==
    /\ crawlPc = "idle"
    /\ toFetch = <<>>
    /\ cache = {}
    /\ fetches = [p \in Paths |-> 0]
    /\ okFetches = [p \in Paths |-> 0]
    /\ pool = [p \in Paths |-> "none"]
    /\ results = <<>>

NoCrawlOpts == [useBrowser |-> FALSE, denied |-> {}, links |-> {}]

\* fetchWithRetry has not been called
NoRetry == [pc |-> "none"]

FnIdle == call = NoCall /\ retry = NoRetry

CrawlOff == crawlOpts = NoCrawlOpts /\ CrawlIdle

AuxIdle == FnIdle /\ CrawlOff

\* the extractor as createStreamingExtractor returns it
SchedInit ==
    /\ config \in Configs
    /\ processedDomains = {}
    /\ pendingTasks = <<>>
    /\ tasks = <<>>
    /\ limitQueue = <<>>
    /\ activeCount = 0
    /\ allRows = <<>>
    /\ csvInitialized = FALSE
    /\ csvFile = <<>>
    /\ skipLog = <<>>
    /\ logsDir \in BOOLEAN
    /\ runLog = [skipped |-> <<>>, errors |-> <<>>, snowballDomains |-> 0,
                 leadsCount |-> 0, domainsProcessed |-> 0]
    /\ finishPc = "idle"
    /\ batch = {}
    /\ submissions = 0
    /\ crawlCalls = [d \in Domains |-> 0]
    /\ csvInits = 0
    /\ waves = 0

Init == AuxIdle /\ SchedInit

\* ------------------------------------------------------------ p-limit pool
\* pLimit(concurrency): a queued task starts only while fewer than
\* `concurrency` started tasks are unsettled
CanStart == activeCount < concurrency

\* ----------------------------------------------------------- addDomain(rec)
\* if (processedDomains.has(domain)) return;
addDomainSeen(d) == d \in processedDomains

\* const task = limit(() => processOne(rec, 0)); pendingTasks.push(task);
AddDomain(d) ==
    /\ finishPc = "idle"
    /\ submissions < MaxSubmissions
    /\ submissions' = submissions + 1
    /\ IF addDomainSeen(d)
       THEN UNCHANGED <<tasks, limitQueue, pendingTasks>>
       ELSE /\ tasks' = Append(tasks, NewTask(d, 0))
            /\ limitQueue' = Append(limitQueue, Len(tasks) + 1)
            /\ pendingTasks' = Append(pendingTasks, Len(tasks) + 1)
    /\ UNCHANGED <<auxVars, config, processedDomains, activeCount, allRows, csvInitialized,
                   csvFile, skipLog, logsDir, runLog, finishPc, batch, crawlCalls,
                   csvInits, waves>>

\* ------------------------------------------------------- processOne(rec, depth)
\* the task body without its processed-set check
AlreadyProcessed_NoCheck(d) == FALSE

\* if (processedDomains.has(domain)) return [];
AlreadyProcessed(d) == d \in processedDomains

SetPc(i, p) == [tasks EXCEPT ![i].pc = p]

\* the task body starts: the synchronous prefix of processOne up to its first await
StartTask(i) ==
    /\ limitQueue # <<>>
    /\ i = Head(limitQueue)
    /\ CanStart
    /\ limitQueue' = Tail(limitQueue)
    /\ LET d == tasks[i].domain IN
       IF AlreadyProcessed(d)
       THEN /\ tasks' = SetPc(i, "resolved")
            /\ UNCHANGED <<processedDomains, activeCount, runLog, crawlCalls>>
       ELSE /\ processedDomains' = processedDomains \cup {d}
            /\ activeCount' = activeCount + 1
            /\ IF isTurkeyBasedDomain(d)
               THEN /\ runLog' = [runLog EXCEPT !.skipped =
                                     Append(@, <<d, "turkey-based domain">>)]
                    /\ tasks' = [tasks EXCEPT ![i].pc = "turkeyAppend",
                                                ![i].claimed = TRUE]
                    /\ UNCHANGED crawlCalls
               ELSE /\ crawlCalls' = [crawlCalls EXCEPT ![d] = @ + 1]
                    /\ tasks' = [tasks EXCEPT ![i].pc = "crawl", ![i].claimed = TRUE]
                    /\ UNCHANGED runLog
    /\ UNCHANGED <<auxVars, config, pendingTasks, allRows, csvInitialized, csvFile, skipLog,
                   logsDir, finishPc, batch, submissions, csvInits, waves>>

\* await appendFile(skippedLogPath, ...).catch(() => {}); return [];
TurkeyAppendDone(i) ==
    /\ i \in 1..Len(tasks)
    /\ tasks[i].pc = "turkeyAppend"
    /\ skipLog' = IF logsDir
                  THEN Append(skipLog, <<tasks[i].domain, "turkey-based domain">>)
                  ELSE skipLog
    /\ tasks' = SetPc(i, "resolved")
    /\ activeCount' = activeCount - 1
    /\ UNCHANGED <<auxVars, config, processedDomains, pendingTasks, limitQueue, allRows,
                   csvInitialized, csvFile, logsDir, runLog, finishPc, batch,
                   submissions, crawlCalls, csvInits, waves>>

\* catch (err) { runLog.errors.push(...); await appendFile(skippedLogPath, ...)
Catch(i) ==
    /\ runLog' = [runLog EXCEPT !.errors = Append(@, tasks[i].domain)]
    /\ tasks' = SetPc(i, "errAppend")

\* the order in which a page lists its outbound hosts
DomainOrder == <<"a.com", "b.com", "c.com.tr">>

\* what extractOutboundTravelDomains may return for the pages of domain d:
\* a duplicate-free list of hosts other than d
OutboundLists(d) ==
    {SelectSeq(DomainOrder, LAMBDA x : x \in S) : S \in SUBSET (Domains \ {d})}

\* the depth test letting a task at the maximum depth expand
SnowballAllowed_AtMaxDepth(enabled, depth, maxDepth) == enabled /\ depth <= maxDepth

\* if (snowballEnabled && depth < snowballMaxDepth)
SnowballAllowed(enabled, depth, maxDepth) == enabled /\ depth < maxDepth

\* the candidates kept without the per-source slice
SnowballAdded_NoSlice(newDomains, maxPerSource) ==
    SelectSeq(newDomains, LAMBDA sd : ~isTurkeyBasedDomain(sd))

\* newDomains.filter((sd) => !isTurkeyBasedDomain(sd)).slice(0, snowballMaxPerSource)
SnowballAdded(newDomains, maxPerSource) ==
    LET nonTr == SelectSeq(newDomains, LAMBDA sd : ~isTurkeyBasedDomain(sd))
    IN SubSeq(nonTr, 1, Min(maxPerSource, Len(nonTr)))

\* for (const sd of added) if (!processedDomains.has(sd)) { ... limit(() =>
\* processOne(snowRec, depth + 1)) }: the tasks one crawled source enqueues
SnowballTasks(newDomains, processed, enabled, depth, maxDepth, maxPerSource) ==
    IF SnowballAllowed(enabled, depth, maxDepth)
    THEN LET fresh == SelectSeq(SnowballAdded(newDomains, maxPerSource),
                                LAMBDA sd : sd \notin processed)
         IN [k \in 1..Len(fresh) |-> NewTask(fresh[k], depth + 1)]
    ELSE <<>>

\* a snowball task handed to the limiter but not pushed to pendingTasks
SnowballPush_Dropped(pt, ids) == pt

\* pendingTasks.push(task) for the tasks of the snowballed domains
SnowballPush(pt, ids) == pt \o ids

\* await crawlDomain(...) completes: it throws, returns no page, or returns
\* pages whose outbound links are newDomains
CrawlDone(i) ==
    /\ i \in 1..Len(tasks)
    /\ tasks[i].pc = "crawl"
    /\ LET d == tasks[i].domain IN
       \/ /\ Catch(i)
          /\ UNCHANGED <<pendingTasks, limitQueue>>
       \/ /\ runLog' = [runLog EXCEPT !.skipped = Append(@, <<d, "no pages fetched">>)]
          /\ tasks' = SetPc(i, "noPagesAppend")
          /\ UNCHANGED <<pendingTasks, limitQueue>>
       \/ \E newDomains \in OutboundLists(d) :
            LET snow == SnowballTasks(newDomains, processedDomains,
                                      config.snowballEnabled, tasks[i].depth,
                                      snowballMaxDepth, MaxPerSource)
                ids == [k \in 1..Len(snow) |-> Len(tasks) + k]
            IN /\ runLog' = [runLog EXCEPT !.snowballDomains = @ + Len(snow)]
               /\ tasks' = SetPc(i, "extract") \o snow
               /\ limitQueue' = limitQueue \o ids
               /\ pendingTasks' = SnowballPush(pendingTasks, ids)
    /\ UNCHANGED <<auxVars, config, processedDomains, activeCount, allRows, csvInitialized,
                   csvFile, skipLog, logsDir, finishPc, batch, submissions,
                   crawlCalls, csvInits, waves>>

\* await appendFile(skippedLogPath, ...) inside the try block (no pages, low
\* score): it fails when logs/ does not exist, and the failure enters the catch
SkipAppendDone(i) ==
    /\ i \in 1..Len(tasks)
    /\ tasks[i].pc \in {"noPagesAppend", "lowAppend"}
    /\ IF logsDir
       THEN /\ skipLog' = Append(skipLog,
                 <<tasks[i].domain, IF tasks[i].pc = "noPagesAppend"
                                    THEN "no pages fetched"
                                    ELSE "score below threshold">>)
            /\ tasks' = SetPc(i, "resolved")
            /\ activeCount' = activeCount - 1
            /\ UNCHANGED runLog
       ELSE /\ Catch(i)
            /\ UNCHANGED <<skipLog, activeCount>>
    /\ UNCHANGED <<auxVars, config, processedDomains, pendingTasks, limitQueue, allRows,
                   csvInitialized, csvFile, logsDir, finishPc, batch, submissions,
                   crawlCalls, csvInits, waves>>

\* await extractEmailsFromPages(...) completes, then scoring and row emission up
\* to the next await: allRows.push(...rows) comes before the CSV is touched
ExtractDone(i) ==
    /\ i \in 1..Len(tasks)
    /\ tasks[i].pc = "extract"
    /\ LET d == tasks[i].domain IN
       \/ /\ Catch(i)
          /\ UNCHANGED <<allRows, activeCount>>
       \/ /\ runLog' = [runLog EXCEPT !.skipped =
                           Append(@, <<d, "score below threshold">>)]
          /\ tasks' = SetPc(i, "lowAppend")
          /\ UNCHANGED <<allRows, activeCount>>
       \/ \E n \in 0..MaxEmails :
            /\ allRows' = allRows \o RowsOf(d, n)
            /\ IF n > 0 /\ config.csvPath
               THEN /\ tasks' = [tasks EXCEPT ![i].rows = n,
                                   ![i].pc = IF ~csvInitialized THEN "csvInit"
                                             ELSE "csvAppend"]
                    /\ UNCHANGED activeCount
               ELSE /\ tasks' = [tasks EXCEPT ![i].rows = n, ![i].pc = "resolved"]
                    /\ activeCount' = activeCount - 1
            /\ UNCHANGED runLog
    /\ UNCHANGED <<auxVars, config, processedDomains, pendingTasks, limitQueue,
                   csvInitialized, csvFile, skipLog, logsDir, finishPc, batch,
                   submissions, crawlCalls, csvInits, waves>>

\* ------------------------------------------------------------ csvWriter.js
\* what writeFile(filePath, HEADER_LINE) leaves in the file: the header alone
initLeadsCsv(file) == <<HEADER_LINE>>

\* await initLeadsCsv(csvPath) completes (mkdir, then writeFile overwrites the
\* file with the header) or fails; then csvInitialized = true and
\* appendLeadsCsv is issued
CsvInitDone(i) ==
    /\ i \in 1..Len(tasks)
    /\ tasks[i].pc = "csvInit"
    /\ \/ /\ csvFile' = initLeadsCsv(csvFile)
          /\ csvInits' = csvInits + 1
          /\ csvInitialized' = TRUE
          /\ tasks' = SetPc(i, "csvAppend")
          /\ UNCHANGED runLog
       \/ /\ Catch(i)
          /\ UNCHANGED <<csvFile, csvInits, csvInitialized>>
    /\ UNCHANGED <<auxVars, config, processedDomains, pendingTasks, limitQueue, activeCount,
                   allRows, skipLog, logsDir, finishPc, batch, submissions,
                   crawlCalls, waves>>

\* appendLeadsCsv: one appendFile of all the rows of the domain
appendLeadsCsv(file, rows) == file \o rows

\* await appendLeadsCsv(csvPath, rows) completes; return rows
CsvAppendDone(i) ==
    /\ i \in 1..Len(tasks)
    /\ tasks[i].pc = "csvAppend"
    /\ \/ /\ csvFile' = appendLeadsCsv(csvFile, RowsOf(tasks[i].domain, tasks[i].rows))
          /\ tasks' = SetPc(i, "resolved")
          /\ activeCount' = activeCount - 1
          /\ UNCHANGED runLog
       \/ /\ Catch(i)
          /\ UNCHANGED <<csvFile, activeCount>>
    /\ UNCHANGED <<auxVars, config, processedDomains, pendingTasks, limitQueue, allRows,
                   csvInitialized, skipLog, logsDir, finishPc, batch, submissions,
                   crawlCalls, csvInits, waves>>

\* the catch block's own await appendFile(skippedLogPath, ...) has no handler:
\* when it fails the promise of processOne rejects
ErrAppendDone(i) ==
    /\ i \in 1..Len(tasks)
    /\ tasks[i].pc = "errAppend"
    /\ IF logsDir
       THEN /\ skipLog' = Append(skipLog, <<tasks[i].domain, "error">>)
            /\ tasks' = SetPc(i, "resolved")
       ELSE /\ tasks' = SetPc(i, "rejected")
            /\ UNCHANGED skipLog
    /\ activeCount' = activeCount - 1
    /\ UNCHANGED <<auxVars, config, processedDomains, pendingTasks, limitQueue, allRows,
                   csvInitialized, csvFile, logsDir, runLog, finishPc, batch,
                   submissions, crawlCalls, csvInits, waves>>

\* ------------------------------------------------------------ finish(outPath)
\* the callers (runExtract, the run command) call finish once, after the last
\* addDomain; tasks created earlier may be queued, running or settled by then.
\* The file operations finish performs itself are taken to succeed: the
\* faults modelled are those of the domain tasks.
FinishCall ==
    /\ finishPc = "idle"
    /\ finishPc' = "mkdir"
    /\ UNCHANGED <<auxVars, config, processedDomains, pendingTasks, tasks, limitQueue,
                   activeCount, allRows, csvInitialized, csvFile, skipLog, logsDir,
                   runLog, batch, submissions, crawlCalls, csvInits, waves>>

\* await mkdir('logs', { recursive: true })
FinishMkdirDone ==
    /\ finishPc = "mkdir"
    /\ logsDir' = TRUE
    /\ finishPc' = "truncate"
    /\ UNCHANGED <<auxVars, config, processedDomains, pendingTasks, tasks, limitQueue,
                   activeCount, allRows, csvInitialized, csvFile, skipLog, runLog,
                   batch, submissions, crawlCalls, csvInits, waves>>

\* Promise.all(batch) resolves once every promise of the batch has resolved
AllResolved(b) == \A i \in b : tasks[i].pc = "resolved"

\* Promise.all(batch) rejects as soon as one promise of the batch has rejected
SomeRejected(b) == \E i \in b : tasks[i].pc = "rejected"

\* while (pendingTasks.length > 0) { const batch = pendingTasks.splice(0); await ...
\* and, when the list is empty, the totals and the choice of the next await
DrainLoop ==
    IF Len(pendingTasks) > 0
    THEN /\ batch' = Range(pendingTasks)
         /\ pendingTasks' = <<>>
         /\ finishPc' = "await"
         /\ waves' = waves + 1
         /\ UNCHANGED runLog
    ELSE /\ runLog' = [runLog EXCEPT !.leadsCount = Len(allRows),
                         !.domainsProcessed = Cardinality(processedDomains)]
         /\ finishPc' = IF config.csvPath /\ ~csvInitialized THEN "initCsv"
                        ELSE "writeLog"
         /\ batch' = {}
         /\ UNCHANGED <<pendingTasks, waves>>

\* await writeFile(skippedLogPath, '', 'utf-8') empties the skip log, then the
\* drain loop is entered
FinishTruncateDone ==
    /\ finishPc = "truncate"
    /\ skipLog' = <<>>
    /\ DrainLoop
    /\ UNCHANGED <<auxVars, config, processedDomains, tasks, limitQueue, activeCount, allRows,
                   csvInitialized, csvFile, logsDir, submissions, crawlCalls,
                   csvInits>>

\* await Promise.all(batch) resolves: the loop condition is evaluated again
FinishWaveDone ==
    /\ finishPc = "await"
    /\ AllResolved(batch)
    /\ DrainLoop
    /\ UNCHANGED <<auxVars, config, processedDomains, tasks, limitQueue, activeCount, allRows,
                   csvInitialized, csvFile, skipLog, logsDir, submissions,
                   crawlCalls, csvInits>>

\* await Promise.all(batch) rejects: finish rejects with the task's error
FinishWaveRejected ==
    /\ finishPc = "await"
    /\ SomeRejected(batch)
    /\ finishPc' = "rejected"
    /\ UNCHANGED <<auxVars, config, processedDomains, pendingTasks, tasks, limitQueue,
                   activeCount, allRows, csvInitialized, csvFile, skipLog, logsDir,
                   runLog, batch, submissions, crawlCalls, csvInits, waves>>

\* if (finalOutPath && !csvInitialized) await initLeadsCsv(finalOutPath)
FinishInitCsvDone ==
    /\ finishPc = "initCsv"
    /\ csvFile' = initLeadsCsv(csvFile)
    /\ csvInits' = csvInits + 1
    /\ finishPc' = "writeLog"
    /\ UNCHANGED <<auxVars, config, processedDomains, pendingTasks, tasks, limitQueue,
                   activeCount, allRows, csvInitialized, skipLog, logsDir, runLog,
                   batch, submissions, crawlCalls, waves>>

\* await writeFile(logPath, JSON.stringify(runLog)); return { rows, runLog }
FinishWriteLogDone ==
    /\ finishPc = "writeLog"
    /\ finishPc' = "resolved"
    /\ UNCHANGED <<auxVars, config, processedDomains, pendingTasks, tasks, limitQueue,
                   activeCount, allRows, csvInitialized, csvFile, skipLog, logsDir,
                   runLog, batch, submissions, crawlCalls, csvInits, waves>>

Next ==
    \/ \E d \in Domains : AddDomain(d)
    \/ \E i \in 1..Len(tasks) : StartTask(i)
    \/ \E i \in 1..Len(tasks) : TurkeyAppendDone(i)
    \/ \E i \in 1..Len(tasks) : CrawlDone(i)
    \/ \E i \in 1..Len(tasks) : SkipAppendDone(i)
    \/ \E i \in 1..Len(tasks) : ExtractDone(i)
    \/ \E i \in 1..Len(tasks) : CsvInitDone(i)
    \/ \E i \in 1..Len(tasks) : CsvAppendDone(i)
    \/ \E i \in 1..Len(tasks) : ErrAppendDone(i)
    \/ FinishCall
    \/ FinishMkdirDone
    \/ FinishTruncateDone
    \/ FinishWaveDone
    \/ FinishWaveRejected
    \/ FinishInitCsvDone
    \/ FinishWriteLogDone

Spec == Init /\ [][Next]_vars

\* ================================================================ properties
TaskIds == 1..Len(tasks)

Rows(f) == Range(f) \ {HEADER_LINE}

\* C1: at-most-once processing.  Whatever addDomain calls and snowball
\* submissions name a hostname, crawlDomain is invoked at most once for it, and
\* once finish has resolved it has been invoked exactly once for every
\* admissible (not Turkey-based) hostname that was ever given a task.
C1_CrawlOnce ==
    /\ \A d \in Domains : crawlCalls[d] <= 1
    /\ finishPc = "resolved" =>
          \A i \in TaskIds :
             ~isTurkeyBasedDomain(tasks[i].domain) => crawlCalls[tasks[i].domain] = 1

\* a hostname submitted by addDomain and rediscovered by snowball while its
\* first task had not started: two tasks, one crawl, the run finished
C1_Witness ==
    /\ finishPc = "resolved"
    /\ \E i, j \in TaskIds :
          /\ i < j
          /\ tasks[i].domain = tasks[j].domain
          /\ tasks[i].depth = 0
          /\ tasks[j].depth = 1
          /\ crawlCalls[tasks[i].domain] = 1

\* C2: drain completeness.  Once finish has left its drain loop (and when it
\* resolves) every task ever created has resolved, none is queued in the
\* limiter or running, and pendingTasks is empty.
C2_DrainComplete ==
    finishPc \in {"initCsv", "writeLog", "resolved"} =>
       /\ \A i \in TaskIds : tasks[i].pc = "resolved"
       /\ pendingTasks = <<>>
       /\ limitQueue = <<>>
       /\ activeCount = 0

\* finish resolved after a second wave that held a snowball task which did
\* real work (it crawled its domain)
C2_Witness ==
    /\ finishPc = "resolved"
    /\ waves >= 2
    /\ \E i \in TaskIds : tasks[i].depth = 1 /\ tasks[i].claimed

C3_NoFaultEscapes ==
    /\ \A i \in TaskIds : tasks[i].pc # "rejected"
    /\ finishPc # "rejected"

\* C4: crash safety of the lead file.  A row that is in the CSV stays in the
\* CSV in every later state of the run.
C4_RowsStayInCsv ==
    [][\A r \in Rows(csvFile) : r \in Rows(csvFile')]_vars

\* C5: the lead CSV is initialised (header written, file overwritten) at most
\* once during the run, exactly once by the time finish resolves when an
\* output path is configured, and the header precedes every row.
C5_InitOnce ==
    /\ csvInits <= 1
    /\ (finishPc = "resolved" /\ config.csvPath) => csvInits = 1
    /\ Rows(csvFile) # {} => csvFile[1] = HEADER_LINE

\* C7 (as stated): addDomain marks the domain as processed before it returns,
\* so every task ever enqueued has its domain in the processed set and no two
\* addDomain tasks carry the same domain.
C7_MarkedByAddDomain ==
    /\ \A i \in TaskIds : tasks[i].domain \in processedDomains
    /\ \A i, j \in TaskIds :
          (i # j /\ tasks[i].depth = 0 /\ tasks[j].depth = 0)
             => tasks[i].domain # tasks[j].domain

\* C7 (amended): the domain is marked when its task body starts, not by
\* addDomain.  A domain is in the processed set exactly when one task of it got
\* past the processed-set check; of the tasks of one domain at most one gets
\* past it, and every other one is queued or has resolved as a no-op.
C7_MarkedAtTaskStart ==
    /\ \A i \in TaskIds : tasks[i].pc # "queued" => tasks[i].domain \in processedDomains
    /\ \A d \in processedDomains :
          \E i \in TaskIds : tasks[i].domain = d /\ tasks[i].claimed
    /\ \A i, j \in TaskIds :
          (i # j /\ tasks[i].domain = tasks[j].domain)
             => ~(tasks[i].claimed /\ tasks[j].claimed)
    /\ \A i \in TaskIds : ~tasks[i].claimed => tasks[i].pc \in {"queued", "resolved"}

\* addDomain called twice for one domain while its first task was queued: two
\* tasks, the first ran the body, the second resolved without running it
C7_Witness ==
    \E i, j \in TaskIds :
       /\ i < j
       /\ tasks[i].domain = tasks[j].domain
       /\ tasks[i].depth = 0
       /\ tasks[j].depth = 0
       /\ tasks[i].claimed
       /\ tasks[j].pc = "resolved"
       /\ ~tasks[j].claimed

\* C8: durable before memory.  With an output path configured, every row of
\* the in-memory accumulator allRows is already in the CSV file.
C8_DurableBeforeMemory ==
    config.csvPath => \A r \in Range(allRows) : r \in Rows(csvFile)

\* C9: the skip log is append-only.  No step of the run removes or overwrites
\* a record that is in the skip log.
C9_SkipLogAppendOnly ==
    [][\A k \in 1..Len(skipLog) :
          Len(skipLog') >= k /\ skipLog'[k] = skipLog[k]]_vars

\* C10: a domain recorded in the error list contributes no lead row to the
\* in-memory accumulator.
C10_FailedDomainHasNoRows ==
    \A k \in 1..Len(runLog.errors) :
       \A r \in Range(allRows) : r[1] # runLog.errors[k]

\* =================================================== functions taken alone
\* While one function of the pipeline is examined on its own the extractor
\* stays as it was constructed.
DefaultConfig ==
    [useBrowser |-> FALSE, concurrency |-> Unset, snowballEnabled |-> TRUE,
     csvPath |-> TRUE]

SchedIdle == SchedInit /\ config = DefaultConfig /\ logsDir = FALSE

\* a call that has not returned yet
Pending(fn, args) == [fn |-> fn, args |-> args, returned |-> FALSE, result |-> <<>>]

Return(result) == call' = [call EXCEPT !.returned = TRUE, !.result = result]

\* ------------------------------------------ the snowball step of processOne
\* largest snowball.maxDepth and snowball.maxNewDomainsPerSource examined
MaxDepthBound == 2
MaxPerSourceBound == 3

\* the hosts the pages of the crawled source "a.com" may link to, in page order
PeerOrder == <<"b.com", "c.com.tr", "d.com", "e.com">>

PeerLists == {SelectSeq(PeerOrder, LAMBDA x : x \in S) : S \in SUBSET Range(PeerOrder)}

\* the source itself is in the processed set when its crawl returns
SnowballArgs ==
    {[newDomains |-> nd, processed |-> {"a.com"} \cup pr, enabled |-> en,
      depth |-> dp, maxDepth |-> md, maxPerSource |-> mp] :
        nd \in PeerLists, pr \in SUBSET {"b.com", "d.com"}, en \in BOOLEAN,
        dp \in 0..MaxDepthBound, md \in 0..MaxDepthBound,
        mp \in 1..MaxPerSourceBound}

SnowballInit ==
    /\ SchedIdle
    /\ CrawlOff
    /\ retry = NoRetry
    /\ call \in {Pending("snowball", a) : a \in {x \in SnowballArgs : x.depth <= x.maxDepth}}

\* the snowball block of processOne runs for the pages of one crawl
SnowballExpand ==
    /\ call.fn = "snowball"
    /\ ~call.returned
    /\ LET a == call.args
       IN Return(SnowballTasks(a.newDomains, a.processed, a.enabled, a.depth,
                               a.maxDepth, a.maxPerSource))
    /\ UNCHANGED <<schedVars, crawlVars, retry>>

SnowballNext == SnowballExpand

SnowballSpec == SnowballInit /\ [][SnowballNext]_vars

\* the snowball block has run for the examined crawl
SnowballRan == call.fn = "snowball" /\ call.returned

C12_DepthCap ==
    SnowballRan =>
        LET a == call.args
        IN /\ \A k \in 1..Len(call.result) :
                 /\ call.result[k].depth = a.depth + 1
                 /\ call.result[k].depth <= a.maxDepth
           /\ a.depth >= a.maxDepth => call.result = <<>>
           /\ (a.maxDepth = DefaultSnowballMaxDepth /\ call.result # <<>>) => a.depth = 0
           /\ ~a.enabled => call.result = <<>>

\* a source at the maximum depth whose pages link to an unprocessed
\* admissible host enqueues nothing
C12_Witness ==
    /\ SnowballRan
    /\ call.args.enabled
    /\ call.args.newDomains = <<"d.com">>
    /\ call.args.processed = {"a.com", "b.com"}
    /\ call.args.depth = 1 /\ call.args.maxDepth = 1
    /\ call.result = <<>>

\* ================================================== crawlDomain (crawlDomain.js)
\* One call of crawlDomain for the origin of one domain, as processOne makes
\* it: the cache of the extractor holds no URL of that origin yet (no other
\* task crawls the same domain, and the URLs of another domain have another
\* origin).  A URL is modelled by its path.  fetchWithRetry and page.goto are
\* the network fetches: each either yields the page or fails.

\* concurrency: 3 in the options processOne passes to crawlDomain
CrawlPoolConcurrency == 3

\* the strategy, the paths robots.txt disallows, the keyword links of the homepage
CrawlOptions ==
    [useBrowser : BOOLEAN, denied : SUBSET {"/", "/about", "/team"},
     links : SUBSET Range(LinkOrder)]

CrawlInit ==
    /\ SchedIdle
    /\ FnIdle
    /\ crawlOpts \in CrawlOptions
    /\ CrawlIdle

\* robots.js isPathAllowed: false when a Disallow rule matches the path
isPathAllowed(path) == path \notin crawlOpts.denied

\* toFetch.add(full.href) for every keyword link of the parsed homepage
AddLinks(tf) ==
    tf \o SelectSeq(LinkOrder, LAMBDA l : l \in crawlOpts.links /\ l \notin Range(tf))

\* tasks = Array.from(toFetch).map((url) => limit(() => fetchOne(url)))
StartPool(tf) ==
    /\ pool' = [p \in Paths |-> IF p \in Range(tf) THEN "queued" ELSE "none"]
    /\ crawlPc' = "pool"

\* crawlDomain is called: the seed paths are added; the browser strategy hands
\* over to crawlDomainWithBrowser, the axios path awaits the robots check of '/'
CrawlCall ==
    /\ crawlPc = "idle"
    /\ toFetch' = FIXED_PATHS
    /\ crawlPc' = IF crawlOpts.useBrowser THEN "browser1" ELSE "robotsHome"
    /\ UNCHANGED <<schedVars, fnVars, crawlOpts, cache, fetches, okFetches, pool, results>>

\* the pooled fetchOne without its cache look-up
CacheHit_NoLookup(url) == FALSE

\* cache.has(url)
CacheHit(url) == url \in cache

\* await isPathAllowed(baseUrl, '/') completes; if allowed and the homepage is
\* not cached its fetch is issued, else the pool is built
RobotsHomeDone ==
    /\ crawlPc = "robotsHome"
    /\ IF isPathAllowed("/") /\ ~CacheHit("/")
       THEN /\ fetches' = [fetches EXCEPT !["/"] = @ + 1]
            /\ crawlPc' = "fetchHome"
            /\ UNCHANGED <<toFetch, pool>>
       ELSE /\ toFetch' = IF isPathAllowed("/") THEN AddLinks(toFetch) ELSE toFetch
            /\ StartPool(toFetch')
            /\ UNCHANGED fetches
    /\ UNCHANGED <<schedVars, fnVars, crawlOpts, cache, okFetches, results>>

\* cache.set(url, await fetchWithRetry(url)) and the link parse, or the catch
\* that logs 'Failed to fetch homepage'; then the pool is built
HomeFetchDone ==
    /\ crawlPc = "fetchHome"
    /\ \/ /\ cache' = cache \cup {"/"}
          /\ okFetches' = [okFetches EXCEPT !["/"] = @ + 1]
          /\ toFetch' = AddLinks(toFetch)
       \/ UNCHANGED <<cache, okFetches, toFetch>>
    /\ StartPool(toFetch')
    /\ UNCHANGED <<schedVars, fnVars, crawlOpts, fetches, results>>

PoolActive == Cardinality({p \in Paths : pool[p] \in {"robots", "fetch"}})

\* p-limit starts the queued fetchOne calls in order while fewer than
\* `concurrency` are running; fetchOne first awaits isPathAllowed
PoolStart(p) ==
    /\ crawlPc = "pool"
    /\ pool[p] = "queued"
    /\ PoolActive < CrawlPoolConcurrency
    /\ \A k \in 1..Len(toFetch) :
          pool[toFetch[k]] = "queued" =>
             \E j \in 1..k : toFetch[j] = p
    /\ pool' = [pool EXCEPT ![p] = "robots"]
    /\ UNCHANGED <<schedVars, fnVars, crawlOpts, crawlPc, toFetch, cache, fetches,
                   okFetches, results>>

\* the robots check of fetchOne completes: null when denied, the cached page
\* when the cache holds the URL, else (after the optional delay) the fetch is
\* issued
PoolRobotsDone(p) ==
    /\ crawlPc = "pool"
    /\ pool[p] = "robots"
    /\ IF ~isPathAllowed(p)
       THEN pool' = [pool EXCEPT ![p] = "null"] /\ UNCHANGED fetches
       ELSE IF CacheHit(p)
       THEN pool' = [pool EXCEPT ![p] = "page"] /\ UNCHANGED fetches
       ELSE /\ pool' = [pool EXCEPT ![p] = "fetch"]
            /\ fetches' = [fetches EXCEPT ![p] = @ + 1]
    /\ UNCHANGED <<schedVars, fnVars, crawlOpts, crawlPc, toFetch, cache, okFetches,
                   results>>

\* await fetchWithRetry(url) of fetchOne completes: cache.set and the page, or
\* the catch that returns null
PoolFetchDone(p) ==
    /\ crawlPc = "pool"
    /\ pool[p] = "fetch"
    /\ \/ /\ cache' = cache \cup {p}
          /\ okFetches' = [okFetches EXCEPT ![p] = @ + 1]
          /\ pool' = [pool EXCEPT ![p] = "page"]
       \/ /\ pool' = [pool EXCEPT ![p] = "null"]
          /\ UNCHANGED <<cache, okFetches>>
    /\ UNCHANGED <<schedVars, fnVars, crawlOpts, crawlPc, toFetch, fetches, results>>

\* the crawl that returns nothing when one of its fetchOne calls gave null
NonNullPages_AllOrNothing(tf, pl) ==
    IF \E p \in Range(tf) : pl[p] = "null" THEN <<>> ELSE tf

\* for (const p of pages) { if (p) results.push(p); }
NonNullPages(tf, pl) == SelectSeq(tf, LAMBDA p : pl[p] = "page")

\* the crawl that returns as soon as one of its fetchOne calls has settled
AllSettled_Race(tf, pl) == \E p \in Range(tf) : pl[p] \in {"null", "page"}

\* const pages = await Promise.all(tasks): every fetchOne has settled
AllSettled(tf, pl) == \A p \in Range(tf) : pl[p] \in {"null", "page"}

\* await Promise.all(tasks) resolves; the non-null pages are returned in order
CrawlReturn ==
    /\ crawlPc = "pool"
    /\ AllSettled(toFetch, pool)
    /\ results' = NonNullPages(toFetch, pool)
    /\ crawlPc' = "returned"
    /\ UNCHANGED <<schedVars, fnVars, crawlOpts, toFetch, cache, fetches, okFetches, pool>>

\* ----------------------------------------------------- crawlDomainWithBrowser
\* what one fetchManyWithBrowser(urls) does: the launch fails and it throws
\* (no URL visited), or it visits every URL once and returns the pages that
\* loaded.  ok is the set of loaded URLs, visited whether the launch succeeded.
BrowserFetchMany(urls, ok, visited) ==
    /\ fetches' = [p \in Paths |-> IF visited /\ p \in urls THEN fetches[p] + 1
                                   ELSE fetches[p]]
    /\ okFetches' = [p \in Paths |-> IF p \in ok THEN okFetches[p] + 1
                                     ELSE okFetches[p]]
    /\ cache' = cache \cup ok

\* for (const url of toFetch) if (cache.has(url)) results.push(...)
BrowserReturn(tf, c) ==
    /\ results' = SelectSeq(tf, LAMBDA p : p \in c)
    /\ crawlPc' = "returned"

\* step 1: the URLs not cached are fetched, the homepage is parsed for links;
\* then step 2 is awaited if some URL of toFetch is still not cached
Browser1Done ==
    /\ crawlPc = "browser1"
    /\ LET notCached == Range(toFetch) \ cache IN
       \E visited \in BOOLEAN :
       \E ok \in SUBSET (IF visited THEN notCached ELSE {}) :
          /\ BrowserFetchMany(notCached, ok, visited)
          /\ toFetch' = IF "/" \in ok THEN AddLinks(toFetch) ELSE toFetch
          /\ IF Range(toFetch') \ cache' = {}
             THEN BrowserReturn(toFetch', cache')
             ELSE crawlPc' = "browser2" /\ UNCHANGED results
    /\ UNCHANGED <<schedVars, fnVars, crawlOpts, pool>>

\* step 2: the URLs still not cached are fetched; the cached URLs are returned
Browser2Done ==
    /\ crawlPc = "browser2"
    /\ LET stillToFetch == Range(toFetch) \ cache IN
       \E visited \in BOOLEAN :
       \E ok \in SUBSET (IF visited THEN stillToFetch ELSE {}) :
          /\ BrowserFetchMany(stillToFetch, ok, visited)
          /\ BrowserReturn(toFetch, cache')
    /\ UNCHANGED <<schedVars, fnVars, crawlOpts, toFetch, pool>>

CrawlNext ==
    \/ CrawlCall
    \/ RobotsHomeDone
    \/ HomeFetchDone
    \/ \E p \in Paths : PoolStart(p)
    \/ \E p \in Paths : PoolRobotsDone(p)
    \/ \E p \in Paths : PoolFetchDone(p)
    \/ CrawlReturn
    \/ Browser1Done
    \/ Browser2Done

CrawlSpec == CrawlInit /\ [][CrawlNext]_vars

C15_DeniedNeverFetched ==
    \A p \in crawlOpts.denied : fetches[p] = 0 /\ p \notin Range(results)

\* ============================================ fetchWithRetry (crawlDomain.js)
\* One call of fetchWithRetry(url, { retries, retryDelaysMs }).  Attempts are
\* numbered from 0 as the loop index is; the error of attempt i is
\* <<"cause", i>>, and <<"undefined">> is the initial value of lastErr.
\* events lists what the call did: <<"ok", i>> and <<"fail", i>> for the
\* axios.get of attempt i, <<"sleep", d>> for a setTimeout of d milliseconds.

\* largest `retries` examined
MaxRetries == 4

\* the retryDelaysMs arrays examined: the default of crawlDomain, the default
\* of the extractor, shorter ones and one that is not increasing
DelayLists ==
    {<<>>, <<1000>>, <<1000, 2000>>, <<1000, 2000, 4000>>, <<2000, 0>>}

RetryInit ==
    /\ SchedIdle
    /\ CrawlOff
    /\ call = NoCall
    /\ retry \in [pc : {"called"}, retries : 0..MaxRetries, delays : DelayLists,
                  i : {0}, events : {<<>>}, error : {<<"none">>}]

\* the backoff test without its last-attempt clause
SleepsAfter_EveryAttempt(i, retries, delays) == i + 1 <= Len(delays)

\* if (i < retries - 1 && delays[i] != null)
SleepsAfter(i, retries, delays) == i < retries - 1 /\ i + 1 <= Len(delays)

\* for (...; i < retries; ...) with the index at i: the next axios.get is
\* issued, or the loop ends and lastErr is thrown (undefined when no attempt
\* was made)
LoopAt(i, lastErr) ==
    IF i < retry.retries
    THEN [retry EXCEPT !.pc = "get", !.i = i]
    ELSE [retry EXCEPT !.pc = "failed", !.i = i, !.error = lastErr]

RetryCall ==
    /\ retry.pc = "called"
    /\ retry' = LoopAt(0, <<"undefined">>)
    /\ UNCHANGED <<schedVars, crawlVars, call>>

\* await axios.get(url) completes: return data, or the catch block
RetryGetDone ==
    /\ retry.pc = "get"
    /\ \/ retry' = [retry EXCEPT !.pc = "returned",
                                 !.events = Append(@, <<"ok", retry.i>>)]
       \/ LET failed == [retry EXCEPT !.events = Append(@, <<"fail", retry.i>>)]
          IN IF SleepsAfter(retry.i, retry.retries, retry.delays)
             THEN retry' = [failed EXCEPT !.pc = "sleep"]
             ELSE retry' = [LoopAt(retry.i + 1, <<"cause", retry.i>>) EXCEPT
                               !.events = failed.events]
    /\ UNCHANGED <<schedVars, crawlVars, call>>

\* await new Promise((r) => setTimeout(r, delays[i])) completes; i++
RetrySleepDone ==
    /\ retry.pc = "sleep"
    /\ retry' = [LoopAt(retry.i + 1, <<"cause", retry.i>>) EXCEPT
                    !.events = Append(retry.events, <<"sleep", retry.delays[retry.i + 1]>>)]
    /\ UNCHANGED <<schedVars, crawlVars, call>>

RetryNext == RetryCall \/ RetryGetDone \/ RetrySleepDone

RetrySpec == RetryInit /\ [][RetryNext]_vars

\* the positions of events that are attempts
Attempts == {k \in 1..Len(retry.events) : retry.events[k][1] \in {"ok", "fail"}}

RetryCalled == retry.pc \notin {"none", "called"}

\* the parts of C14 that do not depend on the options: the call stops at the
\* first successful attempt, makes at most `retries` attempts, numbered in
\* order, and never sleeps after the last one
RetryStopsAndBounds ==
    /\ Cardinality(Attempts) <= retry.retries
    /\ \A k \in 1..Len(retry.events) :
          /\ retry.events[k][1] = "ok" => (k = Len(retry.events) /\ retry.pc = "returned")
          /\ retry.events[k][1] = "sleep" =>
                (k > 1 /\ retry.events[k - 1][1] = "fail"
                       /\ retry.events[k - 1][2] < retry.retries - 1)
    /\ retry.pc = "returned" => retry.events[Len(retry.events)][1] = "ok"
    /\ retry.pc = "failed" =>
          /\ Cardinality(Attempts) = retry.retries
          /\ \A k \in Attempts : retry.events[k][1] = "fail"

\* C14 as stated: it stops at the first success, makes at most `retries`
\* attempts, sleeps backoffDelays[i] between attempt i and attempt i+1 (every
\* two consecutive attempts are separated by that sleep), never sleeps after
\* the last attempt, and when all attempts fail it fails with the cause of the
\* last attempt.
C14_RetryBackoffAsStated ==
    RetryCalled =>
        /\ RetryStopsAndBounds
        /\ \A k \in Attempts :
              (k < Len(retry.events) /\ retry.events[k][1] = "fail") =>
                 LET i == retry.events[k][2]
                 IN /\ i + 1 <= Len(retry.delays)
                    /\ retry.events[k + 1] = <<"sleep", retry.delays[i + 1]>>
        /\ retry.pc = "failed" => retry.error = <<"cause", retry.retries - 1>>

\* C14: it stops at the first success, makes at most `retries` attempts,
\* sleeps backoffDelays[i] between attempt i and attempt i+1 exactly when the
\* delay list has an entry i (otherwise attempt i+1 follows at once), never
\* sleeps after the last attempt, and when all attempts fail it fails with the
\* cause of the last attempt; with retries = 0 it makes no attempt and fails
\* with no cause.
C14_RetryBackoff ==
    RetryCalled =>
        /\ RetryStopsAndBounds
        /\ \A k \in Attempts :
              (k < Len(retry.events) /\ retry.events[k][1] = "fail") =>
                 LET i == retry.events[k][2]
                 IN IF i + 1 <= Len(retry.delays)
                    THEN retry.events[k + 1] = <<"sleep", retry.delays[i + 1]>>
                    ELSE retry.events[k + 1][1] \in {"ok", "fail"}
        /\ \A k \in 1..Len(retry.events) :
              (k = Len(retry.events) /\ retry.events[k][1] = "fail"
                 /\ retry.pc \in {"get", "failed"}) =>
                 \/ retry.events[k][2] = retry.retries - 1
                 \/ retry.events[k][2] + 1 > Len(retry.delays)
        /\ retry.pc = "failed" =>
              retry.error = IF retry.retries >= 1
                            THEN <<"cause", retry.retries - 1>>
                            ELSE <<"undefined">>

\* three attempts failed with the default delays of crawlDomain: two sleeps,
\* none after the last attempt, and the last cause is thrown
C14_Witness ==
    /\ retry.pc = "failed"
    /\ retry.retries = 3
    /\ retry.delays = <<1000, 2000, 4000>>
    /\ retry.events = <<<<"fail", 0>>, <<"sleep", 1000>>, <<"fail", 1>>,
                        <<"sleep", 2000>>, <<"fail", 2>>>>
    /\ retry.error = <<"cause", 2>>

\* ============================ email validation, merge and ranking
\* (the extractEmails part of scoreRelevance.js, lines 36-277)
\* A string is the sequence of its characters; an email address is the pair
\* email.split('@') yields, and its domain the list domain.split('.') yields.
Digits == {"0", "1", "2", "3", "4", "5", "6", "7", "8", "9"}

Letters ==
    {"a", "b", "c", "d", "e", "f", "g", "h", "i", "j", "k", "l", "m", "n", "o",
     "p", "q", "r", "s", "t", "u", "v", "w", "x", "y", "z"}

HexDigits == Digits \cup {"a", "b", "c", "d", "e", "f"}

\* String.prototype.startsWith
StartsWith(s, p) == Len(p) <= Len(s) /\ SubSeq(s, 1, Len(p)) = p

\* Array.prototype.some over a list
Some(list, P(_)) == \E k \in 1..Len(list) : P(list[k])

\* const GENERIC_PREFIXES
GENERIC_PREFIXES ==
    <<<<"i", "n", "f", "o">>,
      <<"c", "o", "n", "t", "a", "c", "t">>,
      <<"s", "a", "l", "e", "s">>,
      <<"o", "f", "f", "i", "c", "e">>,
      <<"h", "e", "l", "l", "o">>,
      <<"s", "u", "p", "p", "o", "r", "t">>,
      <<"e", "n", "q", "u", "i", "r", "y">>,
      <<"e", "n", "q", "u", "i", "r", "i", "e", "s">>,
      <<"b", "o", "o", "k", "i", "n", "g", "s">>,
      <<"b", "o", "o", "k", "i", "n", "g">>,
      <<"r", "e", "s", "e", "r", "v", "a", "t", "i", "o", "n", "s">>,
      <<"r", "e", "s", "e", "r", "v", "a", "t", "i", "o", "n">>>>

\* const JUNK_PREFIXES
JUNK_PREFIXES ==
    <<<<"p", "r", "i", "v", "a", "c", "y">>,
      <<"d", "p", "o">>,
      <<"c", "o", "m", "p", "l", "i", "a", "n", "c", "e">>,
      <<"l", "e", "g", "a", "l">>,
      <<"a", "b", "u", "s", "e">>,
      <<"n", "o", "r", "e", "p", "l", "y">>,
      <<"n", "o", "-", "r", "e", "p", "l", "y">>,
      <<"d", "o", "-", "n", "o", "t", "-", "r", "e", "p", "l", "y">>,
      <<"d", "o", "n", "o", "t", "r", "e", "p", "l", "y">>,
      <<"p", "o", "s", "t", "m", "a", "s", "t", "e", "r">>,
      <<"m", "a", "i", "l", "e", "r", "-", "d", "a", "e", "m", "o", "n">>,
      <<"w", "e", "b", "m", "a", "s", "t", "e", "r">>,
      <<"h", "o", "s", "t", "m", "a", "s", "t", "e", "r">>,
      <<"r", "o", "o", "t">>,
      <<"a", "d", "m", "i", "n">>>>

\* const JUNK_DOMAINS, each split at its dots
JUNK_DOMAINS ==
    <<<<<<"s", "e", "n", "t", "r", "y">>, <<"i", "o">>>>,
      <<<<"i", "n", "f", "o", "r", "e", "g", "u", "l", "a", "t", "o", "r">>, <<"o", "r", "g">>, <<"z", "a">>>>,
      <<<<"e", "x", "a", "m", "p", "l", "e">>, <<"c", "o", "m">>>>,
      <<<<"c", "o", "m", "p", "a", "n", "y">>, <<"c", "o", "m">>>>,
      <<<<"s", "i", "t", "e", "a", "d", "r", "e", "s", "i", "n", "i", "z">>, <<"c", "o", "m">>>>,
      <<<<"y", "o", "u", "r", "d", "o", "m", "a", "i", "n">>, <<"c", "o", "m">>>>,
      <<<<"d", "o", "m", "a", "i", "n">>, <<"c", "o", "m">>>>,
      <<<<"e", "m", "a", "i", "l">>, <<"c", "o", "m">>>>,
      <<<<"t", "e", "s", "t">>, <<"c", "o", "m">>>>,
      <<<<"l", "o", "c", "a", "l", "h", "o", "s", "t">>>>,
      <<<<"f", "t", "c">>, <<"g", "o", "v">>>>,
      <<<<"a", "d", "r">>, <<"o", "r", "g">>>>,
      <<<<"h", "s", "0", "1">>, <<"k", "e", "p">>, <<"t", "r">>>>,
      <<<<"u", "s", "t", "o", "a">>, <<"c", "o", "m">>>>,
      <<<<"a", "b", "t", "a">>, <<"c", "o">>, <<"u", "k">>>>,
      <<<<"c", "a", "a">>, <<"c", "o">>, <<"u", "k">>>>,
      <<<<"s", "e", "d", "g", "w", "i", "c", "k">>, <<"c", "o", "m">>>>,
      <<<<"v", "e", "r", "a", "s", "a", "f", "e">>, <<"c", "o", "m">>>>,
      <<<<"i", "y", "z", "i", "c", "o">>, <<"c", "o", "m">>>>,
      <<<<"d", "v", "m">>, <<"l", "e", "g", "a", "l">>>>>>

MAX_TLD_LEN == 12

\* const COMMON_TLD_PREFIXES
COMMON_TLD_PREFIXES ==
    <<<<"c", "o", "m">>,
      <<"n", "e", "t">>,
      <<"o", "r", "g">>,
      <<"c", "o">>,
      <<"t", "r", "a", "v", "e", "l">>,
      <<"t", "o", "u", "r", "s">>,
      <<"i", "n", "f", "o">>>>

\* the rule applied to no second-level label at all
SecondLevelLabels_None == <<>>

\* the alternatives of /^(com|net|org|co|travel|tours)\.[a-z]{1,4}$/i
SecondLevelLabels ==
    <<<<"c", "o", "m">>,
      <<"n", "e", "t">>,
      <<"o", "r", "g">>,
      <<"c", "o">>,
      <<"t", "r", "a", "v", "e", "l">>,
      <<"t", "o", "u", "r", "s">>>>

\* const realCcTlds
realCcTlds ==
    <<<<"t", "r">>,
      <<"u", "k">>,
      <<"a", "u">>,
      <<"b", "r">>,
      <<"c", "n">>,
      <<"d", "e">>,
      <<"f", "r">>,
      <<"j", "p">>,
      <<"k", "r">>,
      <<"n", "l">>,
      <<"r", "u">>,
      <<"z", "a">>,
      <<"i", "n">>,
      <<"m", "y">>,
      <<"s", "g">>,
      <<"n", "z">>,
      <<"m", "x">>,
      <<"a", "r">>,
      <<"i", "l">>,
      <<"b", "e">>,
      <<"a", "t">>,
      <<"c", "h">>,
      <<"c", "z">>,
      <<"d", "k">>,
      <<"e", "s">>,
      <<"f", "i">>,
      <<"g", "r">>,
      <<"h", "u">>,
      <<"i", "e">>,
      <<"i", "t">>,
      <<"n", "o">>,
      <<"p", "l">>,
      <<"p", "t">>,
      <<"r", "o">>,
      <<"s", "e">>,
      <<"u", "a">>>>

\* /^\d+[a-z]/i.test(local): digits, then a letter
DigitsThenLetter(local) ==
    \E n \in 1..(Len(local) - 1) :
       /\ \A k \in 1..n : local[k] \in Digits
       /\ local[n + 1] \in Letters

\* /^u[0-9a-f]{4}/i.test(local)
EntityPrefix(local) ==
    /\ Len(local) >= 5
    /\ local[1] = "u"
    /\ \A k \in 2..5 : local[k] \in HexDigits

\* /^[._%+-]/.test(local)
SpecialStart(local) == Len(local) >= 1 /\ local[1] \in {".", "_", "%", "+", "-"}

\* /\+?\d{2,}[-.]?\d{2,}/.test(local): four digits in a row, or two digits, a
\* dash or dot, and two digits
PhoneLike(local) ==
    \E i \in 1..Len(local) :
       \/ /\ i + 3 <= Len(local)
          /\ \A k \in i..(i + 3) : local[k] \in Digits
       \/ /\ i + 4 <= Len(local)
          /\ {local[i], local[i + 1], local[i + 3], local[i + 4]} \subseteq Digits
          /\ local[i + 2] \in {"-", "."}

\* domain === jd || domain.endsWith('.' + jd)
IsJunkDomain(parts) ==
    Some(JUNK_DOMAINS, LAMBDA jd :
        /\ Len(jd) <= Len(parts)
        /\ SubSeq(parts, Len(parts) - Len(jd) + 1, Len(parts)) = jd)

\* function isValidEmail(email), for the lower-case addresses its callers pass;
\* the domains examined are far shorter than 253 characters
isValidEmail(email) ==
    LET local == email.local
        parts == email.domain
        tld == parts[Len(parts)]
    IN /\ local # <<>>
       /\ parts # <<>> /\ parts # << <<>> >>
       /\ ~DigitsThenLetter(local)
       /\ ~EntityPrefix(local)
       /\ ~SpecialStart(local)
       /\ ~PhoneLike(local)
       /\ Len(parts) >= 2
       /\ Len(tld) >= 2 /\ Len(tld) <= MAX_TLD_LEN
       /\ Range(tld) \subseteq Letters
       /\ ~(/\ Len(tld) > 6
            /\ Some(COMMON_TLD_PREFIXES, LAMBDA prefix :
                   StartsWith(tld, prefix) /\ Len(tld) > Len(prefix)))
       /\ ~(/\ Some(SecondLevelLabels, LAMBDA l : parts[Len(parts) - 1] = l)
            /\ Len(tld) <= 4
            /\ ~Some(realCcTlds, LAMBDA cc : cc = tld))
       /\ ~IsJunkDomain(parts)

\* local === p || local.startsWith(p + '.') || local.startsWith(p + '-')
MatchesPrefix(local, p) ==
    \/ local = p
    \/ StartsWith(local, Append(p, "."))
    \/ StartsWith(local, Append(p, "-"))

\* function isJunkPrefix(email)
isJunkPrefix(email) == Some(JUNK_PREFIXES, LAMBDA p : MatchesPrefix(email.local, p))

\* function isGeneric(email)
isGeneric(email) == Some(GENERIC_PREFIXES, LAMBDA p : MatchesPrefix(email.local, p))

\* const priorityOrder of pickBestEmails
priorityOrder ==
    <<<<"i", "n", "f", "o">>,
      <<"c", "o", "n", "t", "a", "c", "t">>,
      <<"s", "a", "l", "e", "s">>,
      <<"b", "o", "o", "k", "i", "n", "g">>,
      <<"b", "o", "o", "k", "i", "n", "g", "s">>,
      <<"r", "e", "s", "e", "r", "v", "a", "t", "i", "o", "n", "s">>,
      <<"o", "f", "f", "i", "c", "e">>,
      <<"h", "e", "l", "l", "o">>,
      <<"e", "n", "q", "u", "i", "r", "y">>,
      <<"e", "n", "q", "u", "i", "r", "i", "e", "s">>,
      <<"s", "u", "p", "p", "o", "r", "t">>>>

\* ------------------------------------------------------------ the addresses
Addr(local, domain) == [local |-> local, domain |-> domain]

EmailInfo == Addr(<<"i", "n", "f", "o">>, <<<<"x">>, <<"c", "o", "m">>>>)
EmailSales == Addr(<<"s", "a", "l", "e", "s">>, <<<<"x">>, <<"c", "o", "m">>>>)
EmailRandom == Addr(<<"r", "a", "n", "d", "o", "m">>, <<<<"x">>, <<"c", "o", "m">>>>)
EmailBooking == Addr(<<"b", "o", "o", "k", "i", "n", "g">>, <<<<"x">>, <<"c", "o", "m">>>>)
EmailBookings == Addr(<<"b", "o", "o", "k", "i", "n", "g", "s">>, <<<<"x">>, <<"c", "o", "m">>>>)
EmailPrivacy == Addr(<<"p", "r", "i", "v", "a", "c", "y">>, <<<<"x">>, <<"c", "o", "m">>>>)
EmailComphone == Addr(<<"i", "n", "f", "o">>, <<<<"s", "i", "t", "e">>, <<"c", "o", "m", "p", "h", "o", "n", "e">>>>)

\* the addresses a page of the examined domain may show
PageEmails == {EmailInfo, EmailSales, EmailRandom, EmailBooking, EmailBookings}

\* what the language model may report: any of them, a junk address, or a
\* string that is not a valid address
ReportedEmails == PageEmails \cup {EmailPrivacy, EmailComphone}

\* confidence: 0.9 of extractEmailsRegex, in hundredths
RegexConfidence == 90

\* the confidence the language model reports in the examined runs (0.95)
AiConfidence == 95

\* the candidate typed personal whatever its local part
RegexCandidate_Personal(email, url) ==
    [email |-> email, source_url |-> url, email_type |-> "personal",
     confidence |-> RegexConfidence, extracted_by |-> "regex"]

\* the candidate extractEmailsRegex pushes for an address found on page url
RegexCandidate(email, url) ==
    [email |-> email, source_url |-> url,
     email_type |-> IF isGeneric(email) THEN "generic" ELSE "personal",
     confidence |-> RegexConfidence, extracted_by |-> "regex"]

\* extractEmailsRegex pushes an address only if it is valid and not junk, once
\* per page
RegexCandidates ==
    {RegexCandidate(e, "/") : e \in {x \in PageEmails : isValidEmail(x) /\ ~isJunkPrefix(x)}}
    \cup {RegexCandidate(EmailInfo, "/contact")}

\* the candidates extractEmailsWithLLM returns: extracted_by 'ai', the type
\* the model reports
AiCandidates ==
    [email : ReportedEmails, source_url : {"/"}, email_type : {"generic", "unknown"},
     confidence : {AiConfidence}, extracted_by : {"ai"}]

\* the lists of at most two elements of a set
UpToTwo(S) == {<<>>} \cup {<<x>> : x \in S} \cup {<<x, y>> : x \in S, y \in S}

\* ------------------------------------------------------- mergeEmailResults
\* position of the entry of the Map whose key is email, 0 if there is none
KeyIndex(by, email) ==
    IF \E k \in 1..Len(by) : by[k].email = email
    THEN CHOOSE k \in 1..Len(by) : by[k].email = email
    ELSE 0

\* byEmail.set(r.email, { ...r }): a new key is appended, an existing key keeps
\* its place and takes the new value
MapSet(by, r) ==
    IF KeyIndex(by, r.email) = 0 THEN Append(by, r)
    ELSE [by EXCEPT ![KeyIndex(by, r.email)] = r]

Max(a, b) == IF a > b THEN a ELSE b

\* the fold that takes the reported candidates without checking them
MergeAi_Unchecked(by, a) ==
    IF KeyIndex(by, a.email) # 0
    THEN [by EXCEPT ![KeyIndex(by, a.email)] =
            [@ EXCEPT !.extracted_by = "both",
                      !.confidence = Max(@, a.confidence),
                      !.email_type = IF a.email_type # "unknown" THEN a.email_type
                                     ELSE @]]
    ELSE Append(by, a)

\* the body of `for (const a of aiList)`
MergeAi(by, a) ==
    IF ~isValidEmail(a.email) \/ isJunkPrefix(a.email) THEN by
    ELSE IF KeyIndex(by, a.email) # 0
    THEN [by EXCEPT ![KeyIndex(by, a.email)] =
            [@ EXCEPT !.extracted_by = "both",
                      !.confidence = Max(@, a.confidence),
                      !.email_type = IF a.email_type # "unknown" THEN a.email_type
                                     ELSE @]]
    ELSE Append(by, a)

RECURSIVE FoldRegex(_, _)
FoldRegex(by, list) ==
    IF list = <<>> THEN by ELSE FoldRegex(MapSet(by, Head(list)), Tail(list))

RECURSIVE FoldAi(_, _)
FoldAi(by, list) ==
    IF list = <<>> THEN by ELSE FoldAi(MergeAi(by, Head(list)), Tail(list))

\* function mergeEmailResults(aiList, regexList): Array.from(byEmail.values())
mergeEmailResults(aiList, regexList) == FoldAi(FoldRegex(<<>>, regexList), aiList)

\* ----------------------------------------------------------- pickBestEmails
\* Array.prototype.findIndex, counted from 0, -1 if no element satisfies P
FindIndex(list, P(_)) ==
    IF \E k \in 1..Len(list) : P(list[k])
    THEN (CHOOSE k \in 1..Len(list) : P(list[k]) /\ \A j \in 1..(k - 1) : ~P(list[j])) - 1
    ELSE -1

\* the _priority pickBestEmails gives a candidate
Priority(e) ==
    LET local == e.email.local
        exact == FindIndex(priorityOrder, LAMBDA p : p = local)
        prefix == FindIndex(priorityOrder, LAMBDA p : StartsWith(local, p))
    IN IF exact # -1 THEN exact
       ELSE IF prefix # -1 THEN prefix
       ELSE IF e.email_type = "generic" THEN 50 ELSE 100

\* a stable sort by ascending priority: the first of the candidates of least
\* priority, then the rest sorted
RECURSIVE SortedByPriority(_)
SortedByPriority(list) ==
    IF list = <<>> THEN <<>>
    ELSE LET k == CHOOSE i \in 1..Len(list) :
                     /\ \A j \in 1..Len(list) : Priority(list[i]) <= Priority(list[j])
                     /\ \A j \in 1..(i - 1) : Priority(list[j]) > Priority(list[i])
         IN <<list[k]>> \o
            SortedByPriority(SubSeq(list, 1, k - 1) \o SubSeq(list, k + 1, Len(list)))

\* the candidates left in encounter order
sortScored_NoSort(scored) == scored

\* scored.sort((a, b) => a._priority - b._priority)
sortScored(scored) == SortedByPriority(scored)

\* Array.prototype.slice(0, n) for n >= 0
Slice(list, n) == SubSeq(list, 1, Min(n, Len(list)))

\* the cut made before the sort
pickBestEmails_SliceFirst(emails, maxPerDomain) ==
    sortScored(Slice(emails, maxPerDomain))

\* function pickBestEmails(emails, maxPerDomain)
pickBestEmails(emails, maxPerDomain) == Slice(sortScored(emails), maxPerDomain)

\* ----------------------------------------------------- extractEmailsFromPages
\* const maxEmails = options.maxEmailsPerDomain ?? 5
DefaultMaxEmails == 5

maxEmails(options) ==
    IF options.maxEmailsPerDomain = Unset THEN DefaultMaxEmails
    ELSE options.maxEmailsPerDomain

\* the extractOptions object processOne builds from the configuration: it has
\* the keys enableAiExtract, model, apiKey, aiTextMaxChars and no
\* maxEmailsPerDomain key, whatever extraction.maxEmailsPerDomain is
extractOptions(extraction) == [maxEmailsPerDomain |-> Unset]

\* largest extraction.maxEmailsPerDomain examined
MaxConfigured == 3

\* one call of extractEmailsFromPages: the candidates the pages yield (allAi,
\* allRegex), the configured extraction.maxEmailsPerDomain, and whether the
\* call is the one of processOne or a direct call passing that option
ExtractArgs ==
    {[allAi |-> ai, allRegex |-> rx, configured |-> cf, viaProcessOne |-> via] :
        ai \in UpToTwo(AiCandidates),
        rx \in {l \in UpToTwo(RegexCandidates) : Len(l) = 2 => l[1] # l[2]},
        cf \in {Unset} \cup 1..MaxConfigured, via \in BOOLEAN}

\* the options extractEmailsFromPages receives
OptionsOf(a) ==
    IF a.viaProcessOne THEN extractOptions([maxEmailsPerDomain |-> a.configured])
    ELSE [maxEmailsPerDomain |-> a.configured]

ExtractInit ==
    /\ SchedIdle
    /\ CrawlOff
    /\ retry = NoRetry
    /\ call \in {[fn |-> "extractEmailsFromPages", args |-> a, pc |-> "merge",
                  merged |-> <<>>, returned |-> FALSE, result |-> <<>>] :
                    a \in ExtractArgs}

\* const merged = mergeEmailResults(allAi, allRegex)
ExtractMerge ==
    /\ call.fn = "extractEmailsFromPages"
    /\ call.pc = "merge"
    /\ call' = [call EXCEPT !.pc = "pick",
                  !.merged = mergeEmailResults(call.args.allAi, call.args.allRegex)]
    /\ UNCHANGED <<schedVars, crawlVars, retry>>

\* return pickBestEmails(merged, maxEmails)
ExtractPick ==
    /\ call.fn = "extractEmailsFromPages"
    /\ call.pc = "pick"
    /\ call' = [call EXCEPT !.pc = "done", !.returned = TRUE,
                  !.result = pickBestEmails(call.merged, maxEmails(OptionsOf(call.args)))]
    /\ UNCHANGED <<schedVars, crawlVars, retry>>

ExtractNext == ExtractMerge \/ ExtractPick

ExtractSpec == ExtractInit /\ [][ExtractNext]_vars

\* the merge of the examined call has been made
Merged == call.fn = "extractEmailsFromPages" /\ call.pc \in {"pick", "done"}

Extracted == call.fn = "extractEmailsFromPages" /\ call.pc = "done"

\* the emails extractEmailsRegex found, and the valid non-junk ones the
\* language model reported
RegexFound == {call.args.allRegex[k].email : k \in 1..Len(call.args.allRegex)}

AiFound ==
    {a.email : a \in {x \in Range(call.args.allAi) :
                         isValidEmail(x.email) /\ ~isJunkPrefix(x.email)}}

EntriesFor(list, email) == {k \in 1..Len(list) : list[k].email = email}

\* C16 as stated: an email both sources found has exactly one merged candidate,
\* with extracted_by 'both' and the larger confidence; an email only the
\* external source found is inserted unchanged (extracted_by 'ai'); every
\* pattern-extracted email is in the merged result.
C16_MergeCorrect ==
    Merged =>
        /\ \A e \in RegexFound \cap AiFound :
              /\ Cardinality(EntriesFor(call.merged, e)) = 1
              /\ \A k \in EntriesFor(call.merged, e) :
                    /\ call.merged[k].extracted_by = "both"
                    /\ call.merged[k].confidence = Max(RegexConfidence, AiConfidence)
        /\ \A e \in AiFound \ RegexFound :
              /\ Cardinality(EntriesFor(call.merged, e)) = 1
              /\ \A k \in EntriesFor(call.merged, e) :
                    call.merged[k] \in Range(call.args.allAi)
        /\ \A e \in RegexFound : EntriesFor(call.merged, e) # {}

\* the rank the stated list gives a priority index: booking and bookings share
\* a rank, and so do enquiry and enquiries
StatedRank(p) ==
    IF p <= 3 THEN p
    ELSE IF p <= 7 THEN p - 1
    ELSE IF p <= 10 THEN p - 2
    ELSE p

\* position in the merged list of a returned candidate
MergedPos(c) == CHOOSE k \in 1..Len(call.merged) : call.merged[k] = c

\* C17 as stated: the result is sorted by the list info > contact > sales >
\* booking/bookings > reservations > office > hello > enquiry/enquiries >
\* support, then generic, then personal, and the candidates of one rank keep
\* their encounter order.
C17_RankedByStatedList ==
    Extracted =>
        \A i \in 1..Len(call.result) : \A j \in (i + 1)..Len(call.result) :
            LET ri == StatedRank(Priority(call.result[i]))
                rj == StatedRank(Priority(call.result[j]))
            IN /\ ri <= rj
               /\ ri = rj => MergedPos(call.result[i]) < MergedPos(call.result[j])

\* C17: the result is sorted by the position of the local part in the list
\* info, contact, sales, booking, bookings, reservations, office, hello,
\* enquiry, enquiries, support (each entry a rank of its own: booking before
\* bookings, enquiry before enquiries; a local part that is no entry takes the
\* first entry it starts with), then the other generic candidates, then the
\* personal ones; the candidates of one rank keep their encounter order.
C17_RankedByPriority ==
    Extracted =>
        /\ Range(call.result) \subseteq Range(call.merged)
        /\ \A i \in 1..Len(call.result) : \A j \in (i + 1)..Len(call.result) :
              LET pi == Priority(call.result[i])
                  pj == Priority(call.result[j])
              IN /\ pi <= pj
                 /\ pi = pj => MergedPos(call.result[i]) < MergedPos(call.result[j])
        /\ \A c \in Range(call.result) :
              /\ c.email = EmailInfo => Priority(c) = 0
              /\ c.email = EmailSales => Priority(c) = 2
              /\ c.email = EmailBooking => Priority(c) = 3
              /\ c.email = EmailBookings => Priority(c) = 4
              /\ c.email = EmailRandom =>
                    Priority(c) = IF c.email_type = "generic" THEN 50 ELSE 100

\* the candidates sales@x, info@x, random@x, met in that order, are returned
\* as info@x, sales@x, random@x
C17_Witness ==
    /\ Extracted
    /\ [k \in 1..Len(call.merged) |-> call.merged[k].email]
          = <<EmailSales, EmailInfo, EmailRandom>>
    /\ [k \in 1..Len(call.result) |-> call.result[k].email]
          = <<EmailInfo, EmailSales, EmailRandom>>

\* C18: for n merged candidates the extractor returns min(n, maxPerDomain) of
\* them, each once, and no omitted candidate has a strictly better priority
\* than a returned one.
C18_CapKeepsBest ==
    Extracted =>
        LET cap == maxEmails(OptionsOf(call.args))
        IN /\ Len(call.result) = Min(Len(call.merged), cap)
           /\ Range(call.result) \subseteq Range(call.merged)
           /\ Cardinality(Range(call.result)) = Len(call.result)
           /\ \A o \in Range(call.merged) \ Range(call.result) :
                 \A r \in Range(call.result) : Priority(o) >= Priority(r)

\* four candidates with maxPerDomain = 3: three are returned and the one left
\* out, met first, has the worst priority
C18_Witness ==
    /\ Extracted
    /\ Len(call.merged) = 4
    /\ maxEmails(OptionsOf(call.args)) = 3
    /\ Len(call.result) = 3
    /\ call.merged[1].email = EmailRandom
    /\ call.merged[1] \notin Range(call.result)

\* C19 as stated: the rows of one domain (one per returned candidate) never
\* exceed the configured extraction.maxEmailsPerDomain, 5 when it is not
\* configured, on the call processOne makes.
C19_RowsWithinConfiguredCap ==
    (Extracted /\ call.args.viaProcessOne) =>
        Len(call.result) <= IF call.args.configured = Unset THEN DefaultMaxEmails
                            ELSE call.args.configured

\* ================================== relevance scoring and the score threshold
\* (scoreRelevance, scoreRelevance.js lines 1-34, and its use by processOne)
\* "u_uml" stands for the letter u with diaeresis.
TURKEY_TERMS == <<<<"t", "u", "r", "k", "e", "y">>,
                  <<"t", "u_uml", "r", "k", "i", "y", "e">>>>

DESTINATION_TERMS ==
    <<<<"a", "n", "t", "a", "l", "y", "a">>,
      <<"i", "s", "t", "a", "n", "b", "u", "l">>,
      <<"c", "a", "p", "p", "a", "d", "o", "c", "i", "a">>,
      <<"p", "a", "m", "u", "k", "k", "a", "l", "e">>,
      <<"e", "p", "h", "e", "s", "u", "s">>,
      <<"b", "o", "d", "r", "u", "m">>>>

UpperCase ==
    <<"A", "B", "C", "D", "E", "F", "G", "H", "I", "J", "K", "L", "M", "N",
      "O", "P", "Q", "R", "S", "T", "U", "V", "W", "X", "Y", "Z">>

LowerCase ==
    <<"a", "b", "c", "d", "e", "f", "g", "h", "i", "j", "k", "l", "m", "n",
      "o", "p", "q", "r", "s", "t", "u", "v", "w", "x", "y", "z">>

\* String.prototype.toLowerCase on the characters examined
ToLowerCase(s) ==
    [k \in 1..Len(s) |->
        IF \E j \in 1..Len(UpperCase) : UpperCase[j] = s[k]
        THEN LowerCase[CHOOSE j \in 1..Len(UpperCase) : UpperCase[j] = s[k]]
        ELSE s[k]]

\* String.prototype.includes
Includes(text, term) ==
    \E i \in 1..(Len(text) - Len(term) + 1) : SubSeq(text, i, i + Len(term) - 1) = term

\* the score that takes 2 off for every unrelated keyword found
scoreRelevance_PenaltyEach(combinedText, unrelatedKeywords) ==
    LET text == ToLowerCase(combinedText)
        block == [k \in 1..Len(unrelatedKeywords) |-> ToLowerCase(unrelatedKeywords[k])]
    IN (IF Some(TURKEY_TERMS, LAMBDA term : Includes(text, term)) THEN 2 ELSE 0)
       + Cardinality({k \in 1..Len(DESTINATION_TERMS) : Includes(text, DESTINATION_TERMS[k])})
       - 2 * Cardinality({k \in 1..Len(block) : Includes(text, block[k])})

\* function scoreRelevance(combinedText, unrelatedKeywords): relevanceScore
scoreRelevance(combinedText, unrelatedKeywords) ==
    LET text == ToLowerCase(combinedText)
        block == [k \in 1..Len(unrelatedKeywords) |-> ToLowerCase(unrelatedKeywords[k])]
    IN (IF Some(TURKEY_TERMS, LAMBDA term : Includes(text, term)) THEN 2 ELSE 0)
       + Cardinality({k \in 1..Len(DESTINATION_TERMS) : Includes(text, DESTINATION_TERMS[k])})
       - (IF Some(block, LAMBDA k : Includes(text, k)) THEN 2 ELSE 0)

\* const minScore = options.minRelevanceScore ?? 2
DefaultMinScore == 2

minScoreOf(minRelevanceScore) ==
    IF minRelevanceScore = Unset THEN DefaultMinScore ELSE minRelevanceScore

\* the threshold test letting a score equal to the minimum be skipped
BelowThreshold_Inclusive(relevanceScore, minScore) == relevanceScore <= minScore

\* if (relevanceScore < minScore)
BelowThreshold(relevanceScore, minScore) == relevanceScore < minScore

\* the combined page texts examined
TextTurkeyAntalya ==
    <<"t", "u", "r", "k", "e", "y", " ", "a", "n", "t", "a", "l", "y", "a">>

TextCapitals ==
    <<"V", "i", "s", "i", "t", " ", "T", "U", "R", "K", "E", "Y", ":", " ",
      "A", "n", "t", "a", "l", "y", "a">>

TextDestinations ==
    <<"a", "n", "t", "a", "l", "y", "a", " ", "i", "s", "t", "a", "n", "b",
      "u", "l">>

TextEmpty ==
    <<>>

TextCasino ==
    <<"t", "u", "r", "k", "e", "y", " ", "a", "n", "t", "a", "l", "y", "a",
      " ", "c", "a", "s", "i", "n", "o">>

TextTours ==
    <<"t", "o", "u", "r", "s">>

TextMany ==
    <<"t", "u", "r", "k", "e", "y", " ", "a", "n", "t", "a", "l", "y", "a",
      " ", "a", "n", "t", "a", "l", "y", "a", " ", "i", "s", "t", "a", "n",
      "b", "u", "l", " ", "b", "o", "d", "r", "u", "m">>

Texts ==
    {TextTurkeyAntalya, TextCapitals, TextDestinations, TextEmpty, TextCasino,
     TextTours, TextMany}

\* the unrelatedKeywords lists examined
UnrelatedLists ==
    {<<>>,
     <<<<"C", "a", "s", "i", "n", "o">>>>,
     <<<<"c", "a", "s", "i", "n", "o">>, <<"A", "n", "t", "a", "l", "y", "a">>>>}

\* largest minRelevanceScore examined
MaxMinScore == 4

\* the scoring and threshold step of processOne for a domain whose extraction
\* returned `emails` candidates
RelevanceArgs ==
    [text : Texts, unrelatedKeywords : UnrelatedLists,
     minRelevanceScore : {Unset} \cup 1..MaxMinScore, emails : 0..MaxConfigured]

RelevanceInit ==
    /\ SchedIdle
    /\ CrawlOff
    /\ retry = NoRetry
    /\ call \in {[fn |-> "relevance", args |-> a, pc |-> "score", relevanceScore |-> 0,
                  skipped |-> "", rows |-> 0] : a \in RelevanceArgs}

\* const { relevanceScore } = scoreRelevance(combinedText, unrelatedKeywords)
RelevanceScore ==
    /\ call.fn = "relevance"
    /\ call.pc = "score"
    /\ call' = [call EXCEPT !.pc = "threshold",
                  !.relevanceScore = scoreRelevance(call.args.text,
                                                     call.args.unrelatedKeywords)]
    /\ UNCHANGED <<schedVars, crawlVars, retry>>

\* the skip with reason 'score below threshold' and no row, or one row per
\* extracted email
RelevanceThreshold ==
    /\ call.fn = "relevance"
    /\ call.pc = "threshold"
    /\ IF BelowThreshold(call.relevanceScore, minScoreOf(call.args.minRelevanceScore))
       THEN call' = [call EXCEPT !.pc = "done", !.skipped = "score below threshold"]
       ELSE call' = [call EXCEPT !.pc = "done", !.rows = call.args.emails]
    /\ UNCHANGED <<schedVars, crawlVars, retry>>

RelevanceNext == RelevanceScore \/ RelevanceThreshold

RelevanceSpec == RelevanceInit /\ [][RelevanceNext]_vars

RelevanceDecided == call.fn = "relevance" /\ call.pc = "done"

C20_WitnessKept ==
    /\ RelevanceDecided
    /\ call.args.text = TextTurkeyAntalya
    /\ call.args.minRelevanceScore = Unset
    /\ call.relevanceScore = 3
    /\ call.rows = 2

\* ======================================== the validator applied to a string
\* String.prototype.split(sep) for a one-character separator
RECURSIVE Split(_, _)
Split(s, sep) ==
    IF \E i \in 1..Len(s) : s[i] = sep
    THEN LET i == CHOOSE k \in 1..Len(s) : s[k] = sep /\ \A j \in 1..(k - 1) : s[j] # sep
         IN <<SubSeq(s, 1, i - 1)>> \o Split(SubSeq(s, i + 1, Len(s)), sep)
    ELSE <<s>>

\* const [local, domain] = email.split('@'); const parts = domain.split('.')
\* (a missing domain is undefined, which the validator rejects like '')
ParseAddr(s) ==
    LET pieces == Split(s, "@")
    IN Addr(pieces[1], IF Len(pieces) >= 2 THEN Split(pieces[2], ".") ELSE <<>>)

\* the local parts, second-level labels and final labels examined
ValidateLocals ==
    {<<"i", "n", "f", "o">>,
     <<"s", "a", "l", "e", "s">>,
     <<"o", "f", "f", "i", "c", "e">>,
     <<"1", "0", "i", "n", "f", "o">>}

ValidateSecondLevels ==
    {<<"c", "o", "m">>,
     <<"n", "e", "t">>,
     <<"o", "r", "g">>,
     <<"c", "o">>,
     <<"t", "r", "a", "v", "e", "l">>,
     <<"t", "o", "u", "r", "s">>,
     <<"i", "n", "f", "o">>,
     <<"b", "i", "z">>}

ValidateFinalLabels ==
    {<<"t", "r">>,
     <<"u", "k">>,
     <<"y", "o", "u">>,
     <<"c", "o", "m">>,
     <<"x", "y", "z">>,
     <<"c", "o", "m", "p", "h", "o", "n", "e">>,
     <<"c">>,
     <<"a", "b", "c", "d", "e">>,
     <<"t", "1">>,
     <<"m", "u", "s", "e", "u", "m">>,
     <<"t", "o", "u", "r", "s">>,
     <<"t", "r", "a", "v", "e", "l">>,
     <<"c", "o", "m", "a", "b", "c">>,
     <<"t", "o", "u", "r", "s", "x">>,
     <<"n", "e", "t", "w", "o", "r", "k">>}

\* local@site.final and local@site.second.final
ValidateInputs ==
    {l \o <<"@", "s", "i", "t", "e", ".">> \o sl \o t :
        l \in ValidateLocals,
        sl \in {<<>>} \cup {x \o <<".">> : x \in ValidateSecondLevels},
        t \in ValidateFinalLabels}

ValidateInit ==
    /\ SchedIdle
    /\ CrawlOff
    /\ retry = NoRetry
    /\ call \in {Pending("isValidEmail", s) : s \in ValidateInputs}

\* isValidEmail(email)
Validate ==
    /\ call.fn = "isValidEmail"
    /\ ~call.returned
    /\ Return(isValidEmail(ParseAddr(call.args)))
    /\ UNCHANGED <<schedVars, crawlVars, retry>>

ValidateNext == Validate

ValidateSpec == ValidateInit /\ [][ValidateNext]_vars

Validated == call.fn = "isValidEmail" /\ call.returned

InfoAtSiteComphone ==
    <<"i", "n", "f", "o", "@", "s", "i", "t", "e", ".", "c", "o", "m", "p",
      "h", "o", "n", "e">>

OfficeAtSiteComYou ==
    <<"o", "f", "f", "i", "c", "e", "@", "s", "i", "t", "e", ".", "c", "o",
      "m", ".", "y", "o", "u">>

InfoAtSiteCom ==
    <<"i", "n", "f", "o", "@", "s", "i", "t", "e", ".", "c", "o", "m">>

SalesAtSiteComTr ==
    <<"s", "a", "l", "e", "s", "@", "s", "i", "t", "e", ".", "c", "o", "m",
      ".", "t", "r">>

\* the second-level labels and some of the country codes the rule is stated for
StatedSecondLevels ==
    {<<"c", "o", "m">>,
     <<"n", "e", "t">>,
     <<"o", "r", "g">>,
     <<"c", "o">>,
     <<"t", "r", "a", "v", "e", "l">>,
     <<"t", "o", "u", "r", "s">>}

\* C21: info@site.comphone and office@site.com.you are rejected, info@site.com
\* and sales@site.com.tr are accepted; an address whose domain ends in a
\* com/net/org/co/travel/tours label followed by a final label of at most 4
\* letters is accepted only when that final label is a listed country code.
C21_ValidationBoundary ==
    Validated =>
        LET parts == ParseAddr(call.args).domain
            tld == parts[Len(parts)]
        IN /\ call.args = InfoAtSiteComphone => call.result = FALSE
           /\ call.args = OfficeAtSiteComYou => call.result = FALSE
           /\ call.args = InfoAtSiteCom => call.result = TRUE
           /\ call.args = SalesAtSiteComTr => call.result = TRUE
           /\ (/\ Len(parts) >= 2
               /\ parts[Len(parts) - 1] \in StatedSecondLevels
               /\ Len(tld) <= 4
               /\ Range(tld) \subseteq Letters
               /\ call.result = TRUE)
              => tld \in Range(realCcTlds)

\* office@site.com.you went through the validator and was rejected
C21_Witness ==
    /\ Validated
    /\ call.args = OfficeAtSiteComYou
    /\ call.result = FALSE

\* ================================================== normalizeEmail
\* the white space String.prototype.trim removes, among the characters examined
WhiteSpace == {" ", "\t", "\n"}

\* String.prototype.trim
Trim(s) ==
    IF \A k \in 1..Len(s) : s[k] \in WhiteSpace
    THEN <<>>
    ELSE LET i == CHOOSE k \in 1..Len(s) :
                      s[k] \notin WhiteSpace /\ \A j \in 1..(k - 1) : s[j] \in WhiteSpace
             j == CHOOSE k \in 1..Len(s) :
                      s[k] \notin WhiteSpace /\ \A n \in (k + 1)..Len(s) : s[n] \in WhiteSpace
         IN SubSeq(s, i, j)

\* the normalisation that lower-cases and leaves the white space in place
normalizeEmail_NoTrim(email) == ToLowerCase(email)

\* function normalizeEmail(email): String(email).toLowerCase().trim()
normalizeEmail(email) == Trim(ToLowerCase(email))

\* longest input string examined, and its alphabet
MaxInputLen == 3

InputChars == {"a", "A", "B", " ", "@"}

InputStrings == UNION {[1..n -> InputChars] : n \in 0..MaxInputLen}

\* the letter of the other case
SwapCase(c) ==
    IF \E j \in 1..Len(UpperCase) : UpperCase[j] = c
    THEN LowerCase[CHOOSE j \in 1..Len(UpperCase) : UpperCase[j] = c]
    ELSE IF \E j \in 1..Len(LowerCase) : LowerCase[j] = c
         THEN UpperCase[CHOOSE j \in 1..Len(LowerCase) : LowerCase[j] = c]
         ELSE c

\* s with the letters at the positions of `flip` in the other case and with
\* white space put around it
Variant(s, flip, before, after) ==
    before \o [k \in 1..Len(s) |-> IF k \in flip THEN SwapCase(s[k]) ELSE s[k]] \o after

Paddings == {<<>>, <<" ">>, <<"\t", " ">>, <<"\n">>}

NormalizeArgs ==
    {[s |-> s, t |-> Variant(s, flip, before, after)] :
        s \in InputStrings, flip \in SUBSET (1..MaxInputLen),
        before \in Paddings, after \in Paddings}

NormalizeInit ==
    /\ SchedIdle
    /\ CrawlOff
    /\ retry = NoRetry
    /\ call \in {[fn |-> "normalizeEmail", args |-> a, applied |-> 0,
                  s |-> a.s, t |-> a.t, once |-> <<>>] : a \in NormalizeArgs}

\* normalizeEmail applied to both strings
NormalizeOnce ==
    /\ call.fn = "normalizeEmail"
    /\ call.applied = 0
    /\ call' = [call EXCEPT !.applied = 1, !.s = normalizeEmail(call.s),
                  !.t = normalizeEmail(call.t), !.once = normalizeEmail(call.s)]
    /\ UNCHANGED <<schedVars, crawlVars, retry>>

\* normalizeEmail applied to its own results
NormalizeAgain ==
    /\ call.fn = "normalizeEmail"
    /\ call.applied = 1
    /\ call' = [call EXCEPT !.applied = 2, !.s = normalizeEmail(call.s),
                  !.t = normalizeEmail(call.t)]
    /\ UNCHANGED <<schedVars, crawlVars, retry>>

NormalizeNext == NormalizeOnce \/ NormalizeAgain

NormalizeSpec == NormalizeInit /\ [][NormalizeNext]_vars

\* C22: normalizeEmail(normalizeEmail(s)) = normalizeEmail(s) for every input
\* string s, and two inputs that differ only in letter case or surrounding
\* white space normalize to the same string.
C22_NormalizeIdempotent ==
    call.fn = "normalizeEmail" =>
        /\ call.applied >= 1 => call.s = call.t
        /\ call.applied = 2 => call.s = call.once

\* ' Ab' and its variant 'aB' followed by a tab and a space were both
\* normalized twice, to 'ab'
C22_Witness ==
    /\ call.fn = "normalizeEmail"
    /\ call.applied = 2
    /\ call.args.s = <<" ", "A", "B">>
    /\ call.args.t = <<" ", "a", "B", "\t", " ">>
    /\ call.s = <<"a", "b">>
    /\ call.once = <<"a", "b">>

\* ===================================== isPathAllowed (robots.txt), taken alone
\* a line of the policy file after line.split(':').map(trim): its directive
\* and its value
RobotsLine(directive, value) == [directive |-> directive, value |-> value]

UserAgentDirective ==
    <<"U", "s", "e", "r", "-", "a", "g", "e", "n", "t">>

DisallowDirective ==
    <<"D", "i", "s", "a", "l", "l", "o", "w">>

\* the lines the policy files examined are made of
RobotsLines ==
    {RobotsLine(UserAgentDirective, <<"*">>),
     RobotsLine(UserAgentDirective, <<"S", "c", "r", "a", "p", "p", "e", "r", "/", "2", ".", "0">>),
     RobotsLine(UserAgentDirective, <<"g", "o", "o", "g", "l", "e", "b", "o", "t">>),
     RobotsLine(DisallowDirective, <<"/">>),
     RobotsLine(DisallowDirective, <<"/", "c", "o", "n", "t", "a", "c", "t">>),
     RobotsLine(DisallowDirective, <<>>),
     RobotsLine(DisallowDirective, <<"/", "*", "t">>),
     RobotsLine(DisallowDirective, <<"(">>),
     RobotsLine(<<"S", "i", "t", "e", "m", "a", "p">>, <<"/", "s", ".", "x", "m", "l">>)}

\* longest policy file examined, in lines
MaxRobotsLines == 3

RobotsFiles == UNION {[1..n -> RobotsLines] : n \in 0..MaxRobotsLines}

\* new RegExp(`^${pattern}`) throws a SyntaxError on an unbalanced parenthesis
PatternThrows(pattern) ==
    Cardinality({k \in 1..Len(pattern) : pattern[k] = "("})
        # Cardinality({k \in 1..Len(pattern) : pattern[k] = ")"})

\* re.test(path) for value.replace(/\*/g, '.*') anchored at the start, on
\* values made of literal characters and '*'
RECURSIVE PatternMatches(_, _)
PatternMatches(value, path) ==
    IF value = <<>> THEN TRUE
    ELSE IF Head(value) = "*"
         THEN \E k \in 0..Len(path) :
                 PatternMatches(Tail(value), SubSeq(path, k + 1, Len(path)))
         ELSE /\ path # <<>>
              /\ Head(path) = Head(value)
              /\ PatternMatches(Tail(value), Tail(path))

\* currentUA === '*' || currentUA.toLowerCase().includes('scrapper')
IsOurs(currentUA) ==
    currentUA = <<"*">> \/ Includes(ToLowerCase(currentUA), <<"s", "c", "r", "a", "p", "p", "e", "r">>)

\* the loop over the lines from line k on; currentUA is <<"null">> before the
\* first user-agent line.  The outcome is "true", "false" or "throw".
RECURSIVE RobotsLoop(_, _, _, _)
RobotsLoop(lines, k, currentUA, path) ==
    IF k > Len(lines) THEN "true"
    ELSE LET directive == ToLowerCase(lines[k].directive)
             value == lines[k].value
         IN IF directive = ToLowerCase(UserAgentDirective)
            THEN RobotsLoop(lines, k + 1, <<"ua", value>>, path)
            ELSE IF /\ directive = ToLowerCase(DisallowDirective)
                    /\ currentUA # <<"null">>
                    /\ IsOurs(currentUA[2])
                    /\ value # <<>>
                 THEN IF PatternThrows(value) THEN "throw"
                      ELSE IF PatternMatches(value, path) THEN "false"
                      ELSE RobotsLoop(lines, k + 1, currentUA, path)
                 ELSE RobotsLoop(lines, k + 1, currentUA, path)

\* the handler that lets the failure out of the function
RobotsCatch_Rethrow(outcome) == outcome

\* catch (err) { logger.debug(...); return true; }
RobotsCatch(outcome) == IF outcome = "throw" THEN "true" ELSE outcome

\* what axios.get resolves or rejects with: a transport failure, a body that
\* is no string (a parsed JSON object), no body at all, or a text body
RobotsResponses ==
    {[kind |-> k] : k \in {"unreachable", "timeout", "non-text body", "no body"}}
        \cup {[kind |-> "text", lines |-> f] : f \in RobotsFiles}

\* the try block after the await: (data || '').split is no function of an
\* object
RobotsBody(response, path) ==
    CASE response.kind \in {"unreachable", "timeout", "non-text body"} -> "throw"
      [] response.kind = "no body" -> "true"
      [] response.kind = "text" -> RobotsLoop(response.lines, 1, <<"null">>, path)

RobotsPaths == {<<"/">>, <<"/", "c", "o", "n", "t", "a", "c", "t">>, <<"/", "a", "b", "o", "u", "t">>}

\* baseUrl is a string new URL accepts, or one it throws a TypeError on
RobotsInit ==
    /\ SchedIdle
    /\ CrawlOff
    /\ retry = NoRetry
    /\ call \in {[fn |-> "isPathAllowed", args |-> [baseUrlValid |-> v, path |-> p],
                  pc |-> "called", body |-> "none", result |-> "none",
                  response |-> [kind |-> "none"]] :
                    v \in BOOLEAN, p \in RobotsPaths}

\* new URL('/robots.txt', baseUrl), then axios.get is issued
RobotsCall ==
    /\ call.fn = "isPathAllowed"
    /\ call.pc = "called"
    /\ IF call.args.baseUrlValid
       THEN call' = [call EXCEPT !.pc = "get"]
       ELSE call' = [call EXCEPT !.pc = "done", !.body = "throw",
                       !.result = RobotsCatch("throw")]
    /\ UNCHANGED <<schedVars, crawlVars, retry>>

\* await axios.get settles; the lines are examined
RobotsGetDone ==
    /\ call.fn = "isPathAllowed"
    /\ call.pc = "get"
    /\ \E response \in RobotsResponses :
          LET body == RobotsBody(response, call.args.path)
          IN call' = [call EXCEPT !.pc = "done", !.response = response,
                        !.body = body, !.result = RobotsCatch(body)]
    /\ UNCHANGED <<schedVars, crawlVars, retry>>

RobotsNext == RobotsCall \/ RobotsGetDone

RobotsSpec == RobotsInit /\ [][RobotsNext]_vars

RobotsDone == call.fn = "isPathAllowed" /\ call.pc = "done"

\* C23: isPathAllowed never raises, and whenever fetching or parsing the
\* policy file raised an internal error (invalid base URL, unreachable host,
\* timeout, non-text body, invalid pattern) it returns allowed (true).
C23_FailsOpen ==
    RobotsDone =>
        /\ call.result \in {"true", "false"}
        /\ call.body = "throw" => call.result = "true"
        /\ (~call.args.baseUrlValid
            \/ call.response.kind \in {"unreachable", "timeout", "non-text body"})
               => call.result = "true"

\* a policy file whose rule for every agent holds an invalid pattern was
\* fetched for /contact: the RegExp constructor threw and the path is allowed
C23_Witness ==
    /\ RobotsDone
    /\ call.args.path = <<"/", "c", "o", "n", "t", "a", "c", "t">>
    /\ call.response.kind = "text"
    /\ call.response.lines =
          <<RobotsLine(UserAgentDirective, <<"*">>), RobotsLine(DisallowDirective, <<"(">>)>>
    /\ call.body = "throw"
    /\ call.result = "true"

\* a rule of the policy file denied the path
RobotsDenied ==
    /\ RobotsDone
    /\ call.response.kind = "text"
    /\ call.result = "false"

\* ============== extractEmailsWithLLM and the loop of extractEmailsFromPages
\* what a function produces: a returned list, or a thrown error
Returned(list) == [threw |-> FALSE, list |-> list]

Thrown == [threw |-> TRUE, list |-> <<>>]

\* the elements of the `emails` array of a reply: an object the loop turns
\* into a candidate, an object whose email has no '@', or null
ReplyEntries ==
    {[kind |-> "object", candidate |-> c] :
        c \in {x \in AiCandidates : x.email \in {EmailInfo, EmailRandom}
                                     /\ x.email_type = "unknown"}}
    \cup {[kind |-> "no at"], [kind |-> "null"]}

\* what axios.post settles with: a rejection, a reply without content, content
\* that is no JSON, JSON without an emails array, or JSON with one
LlmResponses ==
    {[kind |-> k] : k \in {"transport failure", "no content", "not json", "no array"}}
    \cup {[kind |-> "emails", emails |-> l] : l \in UpToTwo(ReplyEntries)}

\* the body of `for (const e of emails)`: e.email of null throws a TypeError
RECURSIVE ReplyLoop(_, _)
ReplyLoop(emails, out) ==
    IF emails = <<>> THEN Returned(out)
    ELSE CASE Head(emails).kind = "null" -> Thrown
           [] Head(emails).kind = "no at" -> ReplyLoop(Tail(emails), out)
           [] Head(emails).kind = "object" ->
                 ReplyLoop(Tail(emails), Append(out, Head(emails).candidate))

\* the try block of extractEmailsWithLLM once axios.post has settled
LlmTry(response) ==
    CASE response.kind \in {"transport failure", "not json"} -> Thrown
      [] response.kind \in {"no content", "no array"} -> Returned(<<>>)
      [] response.kind = "emails" -> ReplyLoop(response.emails, <<>>)

\* the handler that lets the failure out of the function
LlmCatch_Rethrow(outcome) == outcome

\* catch (_) { return []; }
LlmCatch(outcome) == IF outcome.threw THEN Returned(<<>>) ELSE outcome

\* if (!apiKey) return []; ... if (!text.trim()) return [];
LlmReturnsEarly(hasKey, hasText) == ~hasKey \/ ~hasText

\* the pages of a crawl: what extractEmailsRegex finds on each, and whether it
\* has visible text
PageOf(url, regex, hasText) == [url |-> url, regex |-> regex, hasText |-> hasText]

PageRegexLists(url) ==
    LET C == {RegexCandidate(e, url) : e \in {EmailSales, EmailInfo, EmailRandom}}
    IN {l \in UpToTwo(C) : Len(l) = 2 => l[1] # l[2]}

PagesOf(url) == {PageOf(url, l, h) : l \in PageRegexLists(url), h \in BOOLEAN}

PageLists ==
    {<<p>> : p \in PagesOf("/")} \cup {<<p, q>> : p \in PagesOf("/"), q \in PagesOf("/contact")}

\* options.enableAiExtract !== false && (options.apiKey || process.env.OPENROUTER_API_KEY)
enableAi(options) == options.enableAiExtract /\ options.hasKey

\* a call of extractEmailsFromPages, or a call of extractEmailsWithLLM alone
AiArgs ==
    {[pages |-> ps, enableAiExtract |-> en, hasKey |-> key, maxEmailsPerDomain |-> mx] :
        ps \in PageLists, en \in BOOLEAN, key \in BOOLEAN, mx \in {Unset, 1}}

AiInit ==
    /\ SchedIdle
    /\ CrawlOff
    /\ retry = NoRetry
    /\ \/ call \in {[fn |-> "extractEmailsFromPages", args |-> a, pc |-> "page", k |-> 1,
                     allRegex |-> <<>>, allAi |-> <<>>, failures |-> 0, replies |-> 0,
                     result |-> <<>>] : a \in AiArgs}
       \/ call \in {[fn |-> "extractEmailsWithLLM",
                     args |-> [hasKey |-> key, hasText |-> txt], pc |-> "called",
                     failures |-> 0, replies |-> 0, result |-> <<>>] :
                       key \in BOOLEAN, txt \in BOOLEAN}

\* one turn of `for (const { url, html } of pages)` up to its await, or the
\* end of the loop
AiPage ==
    /\ call.fn = "extractEmailsFromPages"
    /\ call.pc = "page"
    /\ IF call.k > Len(call.args.pages)
       THEN call' = [call EXCEPT !.pc = "merge"]
       ELSE LET page == call.args.pages[call.k]
                regex == call.allRegex \o page.regex
            IN IF /\ enableAi(call.args)
                  /\ page.hasText
                  /\ ~LlmReturnsEarly(call.args.hasKey, page.hasText)
               THEN call' = [call EXCEPT !.pc = "post", !.allRegex = regex]
               ELSE call' = [call EXCEPT !.k = @ + 1, !.allRegex = regex]
    /\ UNCHANGED <<schedVars, crawlVars, retry>>

\* await axios.post settles inside extractEmailsWithLLM; aiList is pushed
AiPostDone ==
    /\ call.fn = "extractEmailsFromPages"
    /\ call.pc = "post"
    /\ \E response \in LlmResponses :
          LET outcome == LlmCatch(LlmTry(response))
              failed == IF LlmTry(response).threw \/ response.kind # "emails" THEN 1 ELSE 0
          IN IF outcome.threw
             THEN call' = [call EXCEPT !.pc = "raised", !.failures = @ + failed,
                             !.replies = @ + 1]
             ELSE call' = [call EXCEPT !.pc = "page", !.k = @ + 1,
                             !.allAi = @ \o outcome.list, !.failures = @ + failed,
                             !.replies = @ + 1]
    /\ UNCHANGED <<schedVars, crawlVars, retry>>

\* const merged = mergeEmailResults(allAi, allRegex);
\* return pickBestEmails(merged, maxEmails)
AiMergePick ==
    /\ call.fn = "extractEmailsFromPages"
    /\ call.pc = "merge"
    /\ call' = [call EXCEPT !.pc = "done",
                  !.result = pickBestEmails(mergeEmailResults(call.allAi, call.allRegex),
                                            maxEmails(call.args))]
    /\ UNCHANGED <<schedVars, crawlVars, retry>>

\* extractEmailsWithLLM called alone, up to its await
LlmCall ==
    /\ call.fn = "extractEmailsWithLLM"
    /\ call.pc = "called"
    /\ IF LlmReturnsEarly(call.args.hasKey, call.args.hasText)
       THEN call' = [call EXCEPT !.pc = "done"]
       ELSE call' = [call EXCEPT !.pc = "post"]
    /\ UNCHANGED <<schedVars, crawlVars, retry>>

LlmPostDone ==
    /\ call.fn = "extractEmailsWithLLM"
    /\ call.pc = "post"
    /\ \E response \in LlmResponses :
          LET outcome == LlmCatch(LlmTry(response))
              failed == IF LlmTry(response).threw \/ response.kind # "emails" THEN 1 ELSE 0
          IN call' = [call EXCEPT !.pc = IF outcome.threw THEN "raised" ELSE "done",
                        !.result = outcome.list, !.failures = failed, !.replies = 1]
    /\ UNCHANGED <<schedVars, crawlVars, retry>>

AiNext == AiPage \/ AiPostDone \/ AiMergePick \/ LlmCall \/ LlmPostDone

AiSpec == AiInit /\ [][AiNext]_vars

\* the candidates of all the pages, in page order
RECURSIVE AllRegexOf(_)
AllRegexOf(pages) ==
    IF pages = <<>> THEN <<>> ELSE Head(pages).regex \o AllRegexOf(Tail(pages))

\* C24: extractEmailsWithLLM never raises and returns an empty list on missing
\* credentials, a malformed reply or a transport failure; when it is disabled,
\* without credentials or failing at every call, extractEmailsFromPages
\* returns the ranked, capped result of the pattern extraction alone and does
\* not raise.
C24_BestEffort ==
    /\ call.fn \in {"extractEmailsWithLLM", "extractEmailsFromPages"} => call.pc # "raised"
    /\ (call.fn = "extractEmailsWithLLM" /\ call.pc = "done") =>
          /\ (~call.args.hasKey \/ call.failures = 1) => call.result = <<>>
    /\ (call.fn = "extractEmailsFromPages" /\ call.pc = "done") =>
          ((~enableAi(call.args) \/ call.failures = call.replies) =>
              /\ call.result =
                    pickBestEmails(FoldRegex(<<>>, AllRegexOf(call.args.pages)),
                                   maxEmails(call.args))
              /\ \A k \in 1..Len(call.result) :
                    /\ call.result[k].extracted_by = "regex"
                    /\ call.result[k].confidence = RegexConfidence
              /\ {call.result[k].email : k \in 1..Len(call.result)}
                    \subseteq {c.email : c \in Range(AllRegexOf(call.args.pages))}
              /\ Len(call.result) =
                    Min(maxEmails(call.args),
                        Cardinality({c.email : c \in Range(AllRegexOf(call.args.pages))})))

\* two pages with text were sent to the language model, both calls failed, and
\* the two addresses the patterns found came back ranked: info before sales
C24_Witness ==
    /\ call.fn = "extractEmailsFromPages"
    /\ call.pc = "done"
    /\ enableAi(call.args)
    /\ call.replies = 2
    /\ call.failures = 2
    /\ Len(call.result) = 2
    /\ call.result[1].email = EmailInfo
    /\ call.result[2].email = EmailSales
    /\ call.args.pages[1].regex = <<RegexCandidate(EmailSales, "/")>>

\* ============================= the order of the steps inside a domain task
\* the positions of a task body at which its extraction and its scoring are
\* behind it
AfterScoring == {"lowAppend", "csvInit", "csvAppend", "errAppend", "resolved"}

\* C25: inside a domain task extraction runs first, scoring second and
\* snowball expansion third: a step that enqueues a snowball task (a task of
\* depth > 0) is taken by a task whose extraction and scoring have been
\* performed.
C25_SnowballAfterScoring ==
    [][\A j \in (Len(tasks) + 1)..Len(tasks') :
          tasks'[j].depth > 0 =>
             \E i \in TaskIds :
                /\ tasks'[i] # tasks[i]
                /\ tasks[i].depth + 1 = tasks'[j].depth
                /\ tasks'[i].pc \in AfterScoring]_vars

\* =================================================== exclusion before crawl
\* C26: a domain of the excluded region is never crawled and never emits a
\* row, whether it was submitted through addDomain or found by snowball: no
\* snowball task carries such a domain, and the task of such a domain that
\* got past the processed-set check recorded it in the skip list as
\* 'turkey-based domain' and is on the pre-crawl skip path.
C26_ExcludedNeverCrawled ==
    \A d \in TURKEY_TLDS :
       /\ crawlCalls[d] = 0
       /\ \A r \in Range(allRows) \cup Rows(csvFile) : r[1] # d
       /\ \A i \in TaskIds :
             tasks[i].domain = d =>
                /\ tasks[i].depth = 0
                /\ tasks[i].rows = 0
                /\ tasks[i].pc \in {"queued", "turkeyAppend", "resolved"}
                /\ tasks[i].claimed =>
                      \E k \in 1..Len(runLog.skipped) :
                         runLog.skipped[k] = <<d, "turkey-based domain">>

\* c.com.tr was submitted, its task ended as a pre-crawl skip, and a snowball
\* task of another domain exists
C26_Witness ==
    /\ \E i \in TaskIds :
          /\ tasks[i].domain = "c.com.tr"
          /\ tasks[i].claimed
          /\ tasks[i].pc = "resolved"
    /\ \E j \in TaskIds : tasks[j].depth = 1
    /\ runLog.skipped # <<>>
    /\ crawlCalls["c.com.tr"] = 0

\* ======================================================= terminal outcomes
\* the domains of the skip list and of the error list, in order
SkippedDomains == [k \in 1..Len(runLog.skipped) |-> runLog.skipped[k][1]]

ErrorDomains == runLog.errors

NoDuplicates(list) == \A k, l \in 1..Len(list) : list[k] = list[l] => k = l

\* C27: terminal outcomes are mutually exclusive and final: no domain is in
\* both the skip list and the error list, no domain is twice in either list,
\* and a task that has settled stays settled (no domain re-enters Pending).
C27_OutcomesExclusive ==
    /\ [](Range(SkippedDomains) \cap Range(ErrorDomains) = {})
    /\ [](NoDuplicates(SkippedDomains) /\ NoDuplicates(ErrorDomains))
    /\ [][\A i \in TaskIds : tasks[i].pc \in Settled => tasks'[i].pc = tasks[i].pc]_vars

\* ================================================ a crawl returning no page
\* the domains recorded in the skip list with reason 'no pages fetched'
NoPagesDomains ==
    {runLog.skipped[k][1] : k \in {n \in 1..Len(runLog.skipped) :
                                      runLog.skipped[n][2] = "no pages fetched"}}

\* C28: a crawl that returns zero pages is a non-fatal skip of the domain: the
\* domain is in the skip list with reason 'no pages fetched', emits no row,
\* enqueues no snowball task and is not recorded as an error.
C28_NoPagesIsSkip ==
    /\ [](\A d \in NoPagesDomains :
             /\ d \notin Range(runLog.errors)
             /\ \A r \in Range(allRows) \cup Rows(csvFile) : r[1] # d)
    /\ [][\A i \in TaskIds :
             (tasks[i].pc = "crawl" /\ tasks'[i].pc = "noPagesAppend") =>
                /\ Len(tasks') = Len(tasks)
                /\ tasks'[i].domain \in NoPagesDomains']_vars

\* ==================================================== partial crawl failure
CrawlReturned == crawlPc = "returned"

LinkDerived == Paths \ Range(FIXED_PATHS)

\* the fetchOne calls of the pool that have not settled
InFlight == {p \in Paths : pool[p] \in {"queued", "robots", "fetch"}}

\* C30: the fetch of a link-derived (non-seed) URL is issued only after the
\* homepage has been fetched and its links parsed into toFetch, and
\* crawlDomain returns to processOne, where extraction, scoring and snowball
\* expansion follow, only when every page fetch of the crawl has finished: no
\* fetch is in flight and none is issued afterwards.
C30_WithinDomainOrder ==
    /\ [][\A p \in LinkDerived :
             fetches'[p] > fetches[p] =>
                /\ okFetches["/"] >= 1
                /\ p \in Range(toFetch)
                /\ crawlPc \in {"pool", "browser2"}]_vars
    /\ [](CrawlReturned => InFlight = {})
    /\ [][CrawlReturned => fetches' = fetches]_vars

\* axios strategy: /team, a link of the homepage, was fetched after the
\* homepage and the crawl returned both
C30_Witness ==
    /\ CrawlReturned
    /\ ~crawlOpts.useBrowser
    /\ fetches["/team"] = 1
    /\ okFetches["/team"] = 1
    /\ results[1] = "/"
    /\ "/team" \in Range(results)
    /\ InFlight = {}

\* ===================== raw strings through extractEmailsRegex and the merge
\* the strings the patterns match or the language model reports, as found
RawInfo ==
    <<"i", "n", "f", "o", "@", "x", ".", "c", "o", "m">>

RawInfoVariant ==
    <<" ", "I", "n", "f", "o", "@", "X", ".", "C", "O", "M", " ">>

RawPrivacy ==
    <<"p", "r", "i", "v", "a", "c", "y", "@", "x", ".", "c", "o", "m">>

RawComphone ==
    <<"i", "n", "f", "o", "@", "s", "i", "t", "e", ".", "c", "o", "m", "p",
      "h", "o", "n", "e">>

RawSalesTr ==
    <<"S", "a", "l", "e", "s", "-", "T", "R", "@", "x", ".", "c", "o", "m">>

RawRandom ==
    <<"r", "a", "n", "d", "o", "m", "@", "x", ".", "c", "o", "m">>

RawNoAt ==
    <<"n", "o", "a", "t">>

RawMatches == {RawInfo, RawInfoVariant, RawPrivacy, RawComphone, RawSalesTr, RawRandom, RawNoAt}

RawReported == {RawInfo, RawInfoVariant, RawPrivacy, RawComphone, RawNoAt}

\* the elements of the `emails` array of a reply: email and type as reported
RawReplies == [email : RawReported, type : {"generic", "personal", "unknown"}]

\* the body of `push` in extractEmailsRegex; `out` holds the candidates pushed
\* so far, whose emails are the Set `seen`
ExtractPush(out, email, sourceUrl) ==
    LET norm == normalizeEmail(email)
        addr == ParseAddr(norm)
    IN IF \/ norm = <<>>
          \/ ~Includes(norm, <<"@">>)
          \/ \E k \in 1..Len(out) : out[k].email = addr
          \/ ~isValidEmail(addr)
          \/ isJunkPrefix(addr)
       THEN out
       ELSE Append(out, RegexCandidate(addr, sourceUrl))

\* push applied to the matches of one page, in order
RECURSIVE ExtractPushAll(_, _, _)
ExtractPushAll(out, matches, sourceUrl) ==
    IF matches = <<>> THEN out
    ELSE ExtractPushAll(ExtractPush(out, Head(matches), sourceUrl), Tail(matches), sourceUrl)

\* the body of `for (const e of emails)` in extractEmailsWithLLM for a reply
\* element with an email string
LlmPush(out, e, sourceUrl) ==
    LET email == Trim(ToLowerCase(e.email))
    IN IF email = <<>> \/ ~Includes(email, <<"@">>) THEN out
       ELSE Append(out, [email |-> ParseAddr(email), source_url |-> sourceUrl,
                         email_type |-> e.type, confidence |-> AiConfidence,
                         extracted_by |-> "ai"])

RECURSIVE LlmPushAll(_, _, _)
LlmPushAll(out, emails, sourceUrl) ==
    IF emails = <<>> THEN out
    ELSE LlmPushAll(LlmPush(out, Head(emails), sourceUrl), Tail(emails), sourceUrl)

\* one page whose text holds the matches `matches` and for which the language
\* model replies `reply`
CandidateArgs ==
    [matches : UpToTwo(RawMatches), reply : UpToTwo(RawReplies)]

CandidateInit ==
    /\ SchedIdle
    /\ CrawlOff
    /\ retry = NoRetry
    /\ call \in {[fn |-> "candidates", args |-> a, pc |-> "regex", allRegex |-> <<>>,
                  allAi |-> <<>>, result |-> <<>>] : a \in CandidateArgs}

\* const regexList = extractEmailsRegex(html, url); allRegex.push(...regexList)
CandidateRegex ==
    /\ call.fn = "candidates"
    /\ call.pc = "regex"
    /\ call' = [call EXCEPT !.pc = "ai",
                  !.allRegex = ExtractPushAll(<<>>, call.args.matches, "/")]
    /\ UNCHANGED <<schedVars, crawlVars, retry>>

\* const aiList = await extractEmailsWithLLM(text, url, ...); allAi.push(...aiList)
CandidateAi ==
    /\ call.fn = "candidates"
    /\ call.pc = "ai"
    /\ call' = [call EXCEPT !.pc = "merge",
                  !.allAi = LlmPushAll(<<>>, call.args.reply, "/")]
    /\ UNCHANGED <<schedVars, crawlVars, retry>>

\* return pickBestEmails(mergeEmailResults(allAi, allRegex), maxEmails)
CandidateMergePick ==
    /\ call.fn = "candidates"
    /\ call.pc = "merge"
    /\ call' = [call EXCEPT !.pc = "done",
                  !.result = pickBestEmails(mergeEmailResults(call.allAi, call.allRegex),
                                            DefaultMaxEmails)]
    /\ UNCHANGED <<schedVars, crawlVars, retry>>

CandidateNext == CandidateRegex \/ CandidateAi \/ CandidateMergePick

CandidateSpec == CandidateInit /\ [][CandidateNext]_vars

CandidatesDone == call.fn = "candidates" /\ call.pc = "done"

\* the string of an address: local@label.label...
RECURSIVE JoinDots(_)
JoinDots(parts) ==
    IF parts = <<>> THEN <<>>
    ELSE IF Len(parts) = 1 THEN parts[1]
    ELSE parts[1] \o <<".">> \o JoinDots(Tail(parts))

EmailText(addr) == addr.local \o <<"@">> \o JoinDots(addr.domain)

\* the raw strings a call was given, by source
MatchedRaw == Range(call.args.matches)

ReportedRaw == {call.args.reply[k].email : k \in 1..Len(call.args.reply)}

\* C31: every candidate the extractor returns has an email that is normalized
\* (lower-case, trimmed) and passes the validator, whichever source it came
\* from; it is the normalized form of a string a source produced; a reported
\* string that fails validation is not in the result; and no email is in the
\* result twice.
C31_ValidatedNormalized ==
    CandidatesDone =>
        /\ \A k \in 1..Len(call.result) :
              LET e == call.result[k].email
              IN /\ normalizeEmail(EmailText(e)) = EmailText(e)
                 /\ isValidEmail(e)
                 /\ \E raw \in MatchedRaw \cup ReportedRaw :
                       normalizeEmail(raw) = EmailText(e)
        /\ \A raw \in ReportedRaw :
              ~isValidEmail(ParseAddr(normalizeEmail(raw))) =>
                 \A k \in 1..Len(call.result) :
                    EmailText(call.result[k].email) # normalizeEmail(raw)
        /\ \A k, l \in 1..Len(call.result) :
              call.result[k].email = call.result[l].email => k = l

\* the model alone reported ' Info@X.COM ' and 'info@site.comphone': the first
\* came back as info@x.com, the second did not come back
C31_Witness ==
    /\ CandidatesDone
    /\ call.args.matches = <<>>
    /\ Len(call.args.reply) = 2
    /\ call.args.reply[1].email = RawInfoVariant
    /\ call.args.reply[2].email = RawComphone
    /\ Len(call.result) = 1
    /\ EmailText(call.result[1].email) = RawInfo

\* ================================================ junk prefixes and typing
\* C32 as stated: no returned candidate has a junk local part, every returned
\* address whose local part equals or compounds an outreach prefix is typed
\* generic, and every other pattern-extracted address is typed personal.
C32_JunkDroppedTypedByPrefix ==
    CandidatesDone =>
        \A k \in 1..Len(call.result) :
           LET c == call.result[k]
           IN /\ ~isJunkPrefix(c.email)
              /\ isGeneric(c.email) => c.email_type = "generic"
              /\ (c.extracted_by \in {"regex", "both"} /\ ~isGeneric(c.email))
                    => c.email_type = "personal"

\* C32: no returned candidate has a junk local part.  A candidate the
\* patterns alone produced is typed generic exactly when its local part
\* equals or compounds an outreach prefix, and personal otherwise.  A
\* candidate the language model reported too takes the type the model
\* reported unless that type is unknown, and a candidate the model alone
\* reported keeps the model's type.
C32_JunkDroppedTypedBySource ==
    CandidatesDone =>
        \A k \in 1..Len(call.result) :
           LET c == call.result[k]
               reported == {call.allAi[n].email_type :
                               n \in {x \in 1..Len(call.allAi) :
                                         call.allAi[x].email = c.email}}
           IN /\ ~isJunkPrefix(c.email)
              /\ c.extracted_by = "regex" =>
                    c.email_type = IF isGeneric(c.email) THEN "generic" ELSE "personal"
              /\ c.extracted_by = "ai" => c.email_type \in reported
              /\ c.extracted_by = "both" =>
                    \/ c.email_type \in reported \ {"unknown"}
                    \/ /\ reported \subseteq {"unknown"}
                       /\ c.email_type \in
                             {"unknown", IF isGeneric(c.email) THEN "generic" ELSE "personal"}

\* the patterns found privacy@x.com and Sales-TR@x.com: the first was dropped,
\* the second came back typed generic
C32_Witness ==
    /\ CandidatesDone
    /\ call.args.matches = <<RawPrivacy, RawSalesTr>>
    /\ call.args.reply = <<>>
    /\ Len(call.result) = 1
    /\ call.result[1].email_type = "generic"
    /\ call.result[1].extracted_by = "regex"

\* ============================================ the source mark of a candidate
EmailsOf(list) == {list[k].email : k \in 1..Len(list)}

\* C33: a returned candidate is marked both only if the pattern extraction and
\* the language model each produced its email; an email only the model
\* reported, even several times, is marked ai, and an email only the patterns
\* produced is marked regex.
C33_BothMeansBoth ==
    CandidatesDone =>
        \A k \in 1..Len(call.result) :
           LET c == call.result[k]
               byRegex == c.email \in EmailsOf(call.allRegex)
               byAi == c.email \in EmailsOf(call.allAi)
           IN /\ c.extracted_by = "both" => (byRegex /\ byAi)
              /\ (byAi /\ ~byRegex) => c.extracted_by = "ai"
              /\ (byRegex /\ ~byAi) => c.extracted_by = "regex"

\* ========================================================== the scoring model
RelevanceScored == call.fn = "relevance" /\ call.pc # "score"

\* C34: the score is 2 if a core-region term occurs in the lower-cased text
\* (else 0), plus 1 for each distinct destination term that occurs, however
\* often, minus 2 if any unrelated term occurs, however many do; nothing else
\* is added or taken off.
C34_ScoringModel ==
    RelevanceScored =>
        LET lower == ToLowerCase(call.args.text)
            core == \E t \in Range(TURKEY_TERMS) : Includes(lower, t)
            destinations == {t \in Range(DESTINATION_TERMS) : Includes(lower, t)}
            unrelated == \E n \in 1..Len(call.args.unrelatedKeywords) :
                            Includes(lower, ToLowerCase(call.args.unrelatedKeywords[n]))
        IN /\ call.relevanceScore =
                 (IF core THEN 2 ELSE 0) + Cardinality(destinations)
                 - (IF unrelated THEN 2 ELSE 0)
           /\ (call.args.text = TextMany /\ call.args.unrelatedKeywords = <<>>)
                 => call.relevanceScore = 5
           /\ (call.args.text = TextCasino /\ call.args.unrelatedKeywords # <<>>)
                 => call.relevanceScore = 1
           /\ call.args.text = TextEmpty => call.relevanceScore = 0

\* 'turkey antalya casino' was scored against the unrelated keywords casino
\* and Antalya, which both occur: 2 + 1 - 2 = 1
C34_Witness ==
    /\ RelevanceScored
    /\ call.args.text = TextCasino
    /\ Len(call.args.unrelatedKeywords) = 2
    /\ call.relevanceScore = 1

\* ===================================================== normalizeDomain
\* /^https?:\/\//i.test(u)
HasHttpScheme(u) ==
    \/ StartsWith(ToLowerCase(u), <<"h", "t", "t", "p", ":", "/", "/">>)
    \/ StartsWith(ToLowerCase(u), <<"h", "t", "t", "p", "s", ":", "/", "/">>)

\* the characters that end the authority of an http(s) URL
AuthorityEnd == {"/", "?", "#"}

\* code points the URL parser refuses in a host, among the characters examined
ForbiddenHost == {" ", "\t", "\n", "<", ">"}

PortDigits == {"0", "1", "2", "3", "4", "5", "6", "7", "8", "9"}

\* the part of s before its first character of `stops` (all of s without one)
UpTo(s, stops) ==
    IF \E i \in 1..Len(s) : s[i] \in stops
    THEN SubSeq(s, 1, (CHOOSE k \in 1..Len(s) :
                          s[k] \in stops /\ \A j \in 1..(k - 1) : s[j] \notin stops) - 1)
    ELSE s

\* the part of s after its last character c (all of s without one)
AfterLast(s, c) ==
    IF \E i \in 1..Len(s) : s[i] = c
    THEN SubSeq(s, (CHOOSE k \in 1..Len(s) :
                       s[k] = c /\ \A j \in (k + 1)..Len(s) : s[j] # c) + 1, Len(s))
    ELSE s

\* s without its leading slashes
RECURSIVE SkipSlashes(_)
SkipSlashes(s) == IF Len(s) > 0 /\ s[1] = "/" THEN SkipSlashes(Tail(s)) ELSE s

\* new URL(u).hostname for u that starts with http:// or https://, on host
\* names of letters, dots and hyphens: the scheme and the slashes after it
\* are skipped, the authority ends at the first / ? or #, the user
\* information up to the last @ and the port after the colon are removed, the
\* host is lower-cased; an empty host, a forbidden character in the host or a
\* port that is not a number makes the constructor throw
UrlHostname(u) ==
    LET schemeLen == IF StartsWith(ToLowerCase(u), <<"h", "t", "t", "p", "s", ":", "/", "/">>) THEN 8 ELSE 7
        authority == UpTo(SkipSlashes(SubSeq(u, schemeLen + 1, Len(u))), AuthorityEnd)
        hostPort  == AfterLast(authority, "@")
        host      == UpTo(hostPort, {":"})
        port      == SubSeq(hostPort, Len(host) + 2, Len(hostPort))
    IN IF \/ host = <<>>
          \/ \E i \in 1..Len(host) : host[i] \in ForbiddenHost
          \/ \E i \in 1..Len(port) : port[i] \notin PortDigits
       THEN [threw |-> TRUE, hostname |-> <<>>]
       ELSE [threw |-> FALSE, hostname |-> ToLowerCase(host)]

\* if (host.startsWith('www.')) host = host.slice(4)
StripWww(host) ==
    IF StartsWith(host, <<"w", "w", "w", ".">>) THEN SubSeq(host, 5, Len(host)) ELSE host

\* function normalizeDomain(url)
normalizeDomain(url) ==
    IF url = <<>>
    THEN <<>>
    ELSE LET u      == IF HasHttpScheme(url) THEN url ELSE <<"h", "t", "t", "p", "s", ":", "/", "/">> \o url
             parsed == UrlHostname(u)
         IN IF parsed.threw
            THEN <<>>
            ELSE StripWww(Trim(ToLowerCase(parsed.hostname)))

\* the URL and host strings examined: a scheme or none, leading www. labels,
\* a host name, and what follows the host
UrlSchemes ==
    {<<>>, <<"h", "t", "t", "p", ":", "/", "/">>, <<"h", "t", "t", "p", "s", ":", "/", "/">>, <<"H", "T", "T", "P", "S", ":", "/", "/">>, <<"f", "t", "p", ":", "/", "/">>}

UrlPrefixes ==
    {<<>>, <<"w", "w", "w", ".">>, <<"W", "W", "W", ".">>, <<"w", "w", "w", ".", "w", "w", "w", ".">>, <<"u", "@">>}

UrlHosts ==
    {<<"a", ".", "c", "o", "m">>, <<"T", "o", "u", "r", ".", "c", "o">>, <<"w", "w", "w">>}

UrlTails ==
    {<<>>, <<"/", "p">>, <<":", "8", "0", "/", "p">>, <<"?", "q">>, <<":", "x">>, <<" ">>}

UrlInputs ==
    {s \o p \o h \o e : s \in UrlSchemes, p \in UrlPrefixes, h \in UrlHosts, e \in UrlTails}
        \cup {<<>>, <<"h", "t", "t", "p", ":", "/", "/">>, <<"h", "t", "t", "p", "s", ":", "/", "/", "/">>}

DomainInit ==
    /\ SchedIdle
    /\ CrawlOff
    /\ retry = NoRetry
    /\ call \in {[fn |-> "normalizeDomain", url |-> u, applied |-> 0,
                  once |-> <<>>, twice |-> <<>>] : u \in UrlInputs}

\* normalizeDomain(url)
DomainOnce ==
    /\ call.fn = "normalizeDomain"
    /\ call.applied = 0
    /\ call' = [call EXCEPT !.applied = 1, !.once = normalizeDomain(call.url)]
    /\ UNCHANGED <<schedVars, crawlVars, retry>>

\* normalizeDomain applied to its own result
DomainAgain ==
    /\ call.fn = "normalizeDomain"
    /\ call.applied = 1
    /\ call' = [call EXCEPT !.applied = 2, !.twice = normalizeDomain(call.once)]
    /\ UNCHANGED <<schedVars, crawlVars, retry>>

DomainNext == DomainOnce \/ DomainAgain

DomainSpec == DomainInit /\ [][DomainNext]_vars

\* C40: normalizeDomain is idempotent: for every URL or host string u,
\* normalizeDomain(normalizeDomain(u)) = normalizeDomain(u)
C40_NormalizeDomainIdempotent ==
    (call.fn = "normalizeDomain" /\ call.applied = 2) => call.twice = call.once

\* =========================================== extractOutboundTravelDomains
TRAVEL_DOMAIN_HINTS ==
{<<"t", "o", "u", "r">>,
     <<"t", "r", "a", "v", "e", "l">>,
     <<"v", "o", "y", "a", "g", "e">>,
     <<"h", "o", "l", "i", "d", "a", "y">>,
     <<"e", "x", "c", "u", "r", "s", "i", "o", "n">>,
     <<"a", "d", "v", "e", "n", "t", "u", "r", "e">>,
     <<"e", "x", "p", "l", "o", "r", "e">>,
     <<"j", "o", "u", "r", "n", "e", "y">>,
     <<"t", "r", "e", "k">>,
     <<"s", "a", "f", "a", "r", "i">>,
     <<"c", "r", "u", "i", "s", "e">>,
     <<"e", "x", "p", "e", "d", "i", "t">>,
     <<"d", "i", "s", "c", "o", "v", "e", "r">>,
     <<"w", "a", "n", "d", "e", "r">>}

TRAVEL_TEXT_HINTS ==
{<<"t", "o", "u", "r">>,
     <<"t", "r", "a", "v", "e", "l">>,
     <<"a", "g", "e", "n", "c", "y">>,
     <<"o", "p", "e", "r", "a", "t", "o", "r">>,
     <<"p", "a", "r", "t", "n", "e", "r">>,
     <<"h", "o", "l", "i", "d", "a", "y">>,
     <<"e", "x", "c", "u", "r", "s", "i", "o", "n">>,
     <<"v", "o", "y", "a", "g", "e">>,
     <<"b", "o", "o", "k", "i", "n", "g">>,
     <<"a", "d", "v", "e", "n", "t", "u", "r", "e">>}

SKIP_DOMAINS ==
{<<"t", "r", "i", "p", "a", "d", "v", "i", "s", "o", "r", ".", "c", "o", "m">>,
     <<"v", "i", "a", "t", "o", "r", ".", "c", "o", "m">>,
     <<"g", "e", "t", "y", "o", "u", "r", "g", "u", "i", "d", "e", ".", "c", "o", "m">>,
     <<"b", "o", "o", "k", "i", "n", "g", ".", "c", "o", "m">>,
     <<"e", "x", "p", "e", "d", "i", "a", ".", "c", "o", "m">>,
     <<"h", "o", "t", "e", "l", "s", ".", "c", "o", "m">>,
     <<"a", "i", "r", "b", "n", "b", ".", "c", "o", "m">>,
     <<"k", "a", "y", "a", "k", ".", "c", "o", "m">>,
     <<"s", "k", "y", "s", "c", "a", "n", "n", "e", "r", ".", "c", "o", "m">>,
     <<"t", "r", "i", "v", "a", "g", "o", ".", "c", "o", "m">>,
     <<"g", "o", "o", "g", "l", "e", ".", "c", "o", "m">>,
     <<"f", "a", "c", "e", "b", "o", "o", "k", ".", "c", "o", "m">>,
     <<"i", "n", "s", "t", "a", "g", "r", "a", "m", ".", "c", "o", "m">>,
     <<"t", "w", "i", "t", "t", "e", "r", ".", "c", "o", "m">>,
     <<"y", "o", "u", "t", "u", "b", "e", ".", "c", "o", "m">>,
     <<"l", "i", "n", "k", "e", "d", "i", "n", ".", "c", "o", "m">>,
     <<"p", "i", "n", "t", "e", "r", "e", "s", "t", ".", "c", "o", "m">>,
     <<"t", "i", "k", "t", "o", "k", ".", "c", "o", "m">>,
     <<"w", "i", "k", "i", "p", "e", "d", "i", "a", ".", "o", "r", "g">>,
     <<"r", "e", "d", "d", "i", "t", ".", "c", "o", "m">>,
     <<"t", "r", "u", "s", "t", "p", "i", "l", "o", "t", ".", "c", "o", "m">>,
     <<"t", "o", "u", "r", "r", "a", "d", "a", "r", ".", "c", "o", "m">>,
     <<"b", "o", "o", "k", "m", "u", "n", "d", "i", ".", "c", "o", "m">>,
     <<"r", "e", "s", "p", "o", "n", "s", "i", "b", "l", "e", "t", "r", "a", "v", "e", "l", ".", "c", "o", "m">>,
     <<"l", "o", "n", "e", "l", "y", "p", "l", "a", "n", "e", "t", ".", "c", "o", "m">>,
     <<"r", "o", "u", "g", "h", "g", "u", "i", "d", "e", "s", ".", "c", "o", "m">>,
     <<"f", "o", "d", "o", "r", "s", ".", "c", "o", "m">>}

\* String.prototype.endsWith
EndsWith(s, p) == Len(p) <= Len(s) /\ SubSeq(s, Len(s) - Len(p) + 1, Len(s)) = p

\* SKIP_DOMAINS.has(domain), or domain.endsWith('.' + sd) for one of them
SkipDomain(domain) ==
    \/ domain \in SKIP_DOMAINS
    \/ \E sd \in SKIP_DOMAINS : EndsWith(domain, <<".">> \o sd)

\* domainMatch || textMatch
TravelMatch(domain, text) ==
    \/ \E h \in TRAVEL_DOMAIN_HINTS : Includes(domain, h)
    \/ \E h \in TRAVEL_TEXT_HINTS : Includes(ToLowerCase(text), h)

\* the a[href] elements of the pages that have html, in document order
RECURSIVE AnchorsOf(_)
AnchorsOf(pages) ==
    IF pages = <<>>
    THEN <<>>
    ELSE (IF Head(pages).html THEN Head(pages).anchors ELSE <<>>) \o AnchorsOf(Tail(pages))

\* the callback of $('a[href]').each over the anchors; found is the Set, in
\* insertion order
RECURSIVE EachAnchor(_, _, _)
EachAnchor(anchors, ownNorm, found) ==
    IF anchors = <<>>
    THEN found
    ELSE LET el     == Head(anchors)
             domain == normalizeDomain(el.href)
             add    == /\ StartsWith(el.href, <<"h", "t", "t", "p">>)
                       /\ domain # <<>>
                       /\ domain # ownNorm
                       /\ ~SkipDomain(domain)
                       /\ TravelMatch(domain, el.text)
                       /\ \A k \in 1..Len(found) : found[k] # domain
         IN EachAnchor(Tail(anchors), ownNorm, IF add THEN Append(found, domain) ELSE found)

\* function extractOutboundTravelDomains(pages, ownDomain)
extractOutboundTravelDomains(pages, ownDomain) ==
    EachAnchor(AnchorsOf(pages), StripWww(ToLowerCase(ownDomain)), <<>>)

\* the anchors examined
Anchors ==
    {[href |-> <<"h", "t", "t", "p", "s", ":", "/", "/", "w", "w", "w", ".", "t", "o", "u", "r", "x", ".", "c", "o", "m", "/">>,
      text |-> <<"x">>],
     [href |-> <<"h", "t", "t", "p", ":", "/", "/", "T", "o", "u", "r", "X", ".", "c", "o", "m", "/", "p">>,
      text |-> <<>>],
     [href |-> <<"h", "t", "t", "p", "s", ":", "/", "/", "f", "a", "c", "e", "b", "o", "o", "k", ".", "c", "o", "m", "/", "t">>,
      text |-> <<"T", "r", "a", "v", "e", "l", " ", "p", "a", "r", "t", "n", "e", "r">>],
     [href |-> <<"h", "t", "t", "p", "s", ":", "/", "/", "m", ".", "f", "a", "c", "e", "b", "o", "o", "k", ".", "c", "o", "m">>,
      text |-> <<"o", "u", "r", " ", "t", "o", "u", "r", "s">>],
     [href |-> <<"h", "t", "t", "p", "s", ":", "/", "/", "a", "b", "c", ".", "c", "o", "m">>,
      text |-> <<"O", "u", "r", " ", "P", "a", "r", "t", "n", "e", "r">>],
     [href |-> <<"h", "t", "t", "p", "s", ":", "/", "/", "a", "b", "c", ".", "c", "o", "m", "/", "x">>,
      text |-> <<"h", "o", "m", "e">>],
     [href |-> <<"/", "t", "o", "u", "r", "s">>,
      text |-> <<"t", "o", "u", "r">>],
     [href |-> <<"h", "t", "t", "p", "s", ":", "/", "/", "w", "w", "w", ".", "w", "w", "w", ".", "t", "o", "u", "r", "x", ".", "c", "o", "m">>,
      text |-> <<>>],
     [href |-> <<"h", "t", "t", "p", "s", ":", "/", "/", "n", "o", "t", "f", "a", "c", "e", "b", "o", "o", "k", ".", "c", "o", "m">>,
      text |-> <<"T", "o", "u", "r">>],
     [href |-> <<"h", "t", "t", "p", "s", ":", "/", "/", "d", "e", "f", ".", "c", "o", "m">>,
      text |-> <<"h", "o", "m", "e">>]}

\* most anchors on a page of the examined crawls
MaxAnchors == 2

\* a page without html, and the pages of up to MaxAnchors anchors
CrawledPages ==
    {[html |-> FALSE, anchors |-> <<>>]}
        \cup {[html |-> TRUE, anchors |-> a] :
                a \in UNION {[1..n -> Anchors] : n \in 0..MaxAnchors}}

\* crawls of one page, and of two pages whose second has at most one anchor
CrawledPageLists ==
    {<<p>> : p \in CrawledPages}
        \cup {<<p, q>> : p \in CrawledPages, q \in {r \in CrawledPages : Len(r.anchors) <= 1}}

\* the crawled domain as runDiscover and the snowball step hand it over: a
\* result of normalizeDomain
OwnDomains ==
    {normalizeDomain(u) : u \in {<<"h", "t", "t", "p", "s", ":", "/", "/", "w", "w", "w", ".", "t", "o", "u", "r", "x", ".", "c", "o", "m">>, <<"h", "t", "t", "p", "s", ":", "/", "/", "A", "B", "C", ".", "c", "o", "m", "/">>, <<"h", "t", "t", "p", ":", "/", "/", "w", "w", "w", ".", "w", "w", "w", ".", "t", "o", "u", "r", "x", ".", "c", "o", "m", "/">>}}

\* processedDomains of the scheduler at the time of the call
ProcessedSets ==
    {{}, {<<"t", "o", "u", "r", "x", ".", "c", "o", "m">>, <<"a", "b", "c", ".", "c", "o", "m">>}}

ExpandInit ==
    /\ SchedIdle
    /\ CrawlOff
    /\ retry = NoRetry
    /\ call \in {[fn |-> "extractOutboundTravelDomains", pages |-> pl, ownDomain |-> d,
                  processed |-> pr, returned |-> FALSE, result |-> <<>>] :
                    pl \in CrawledPageLists, d \in OwnDomains, pr \in ProcessedSets}

\* const newDomains = extractOutboundTravelDomains(pages, domain)
Expand ==
    /\ call.fn = "extractOutboundTravelDomains"
    /\ ~call.returned
    /\ call' = [call EXCEPT !.returned = TRUE,
                  !.result = extractOutboundTravelDomains(call.pages, call.ownDomain)]
    /\ UNCHANGED <<schedVars, crawlVars, retry>>

ExpandNext == Expand

ExpandSpec == ExpandInit /\ [][ExpandNext]_vars

Expanded == call.fn = "extractOutboundTravelDomains" /\ call.returned

\* the anchors of the call that point to the host `domain`
AnchorsTo(domain) ==
    {k \in 1..Len(AnchorsOf(call.pages)) :
        normalizeDomain(AnchorsOf(call.pages)[k].href) = domain}

\* the returned list has no duplicates, holds no denylisted domain nor a
\* subdomain of one, holds only hosts one of whose anchors matched a keyword
\* in the host or in the anchor text, and the processed set is left alone
ExpandedWellFormed ==
    Expanded =>
        /\ NoDuplicates(call.result)
        /\ \A k \in 1..Len(call.result) :
              /\ call.result[k] \notin SKIP_DOMAINS
              /\ \A sd \in SKIP_DOMAINS : ~EndsWith(call.result[k], <<".">> \o sd)
              /\ \E n \in AnchorsTo(call.result[k]) :
                    TravelMatch(call.result[k], AnchorsOf(call.pages)[n].text)

\* C35: the list returned by the snowball expander has no duplicates, never
\* contains the crawled domain itself, never contains a denylisted domain or
\* a subdomain of one, and contains only hosts that matched a keyword
C35_ExpanderOutput ==
    /\ ExpandedWellFormed
    /\ Expanded => \A k \in 1..Len(call.result) : call.result[k] # call.ownDomain

\* the same with the crawled domain taken as the expander takes it: lower
\* case and without one leading www. label
ExpanderOutputOwnNorm ==
    /\ ExpandedWellFormed
    /\ Expanded =>
          \A k \in 1..Len(call.result) :
              call.result[k] # StripWww(ToLowerCase(call.ownDomain))

\* a returned list that holds a host of the processed set
ExpandedProcessed ==
    /\ Expanded
    /\ \E k \in 1..Len(call.result) : call.result[k] \in call.processed

\* ============================================ a TLD with trailing text
\* a final label that is one of COMMON_TLD_PREFIXES followed by more letters
PrefixPlusExtra(tld) ==
    \E k \in 1..Len(COMMON_TLD_PREFIXES) :
        /\ StartsWith(tld, COMMON_TLD_PREFIXES[k])
        /\ Len(tld) > Len(COMMON_TLD_PREFIXES[k])

\* C36: an address whose final label is alphabetic, 6 or more characters
\* long and a known TLD prefix followed by extra characters is rejected by
\* the validator
C36_TrailingGarbageRejected ==
    Validated =>
        LET parts == ParseAddr(call.args).domain
            tld == parts[Len(parts)]
        IN (/\ Range(tld) \subseteq Letters
            /\ Len(tld) >= 6
            /\ PrefixPlusExtra(tld))
           => call.result = FALSE

\* the same for final labels of 7 or more characters
TrailingGarbageOverSix ==
    Validated =>
        LET parts == ParseAddr(call.args).domain
            tld == parts[Len(parts)]
        IN (/\ Range(tld) \subseteq Letters
            /\ Len(tld) > 6
            /\ PrefixPlusExtra(tld))
           => call.result = FALSE

\* ================================================= fetchManyWithBrowser
\* the URLs handed to one call: up to MaxUrls of them, repetitions included
MaxUrls == 3

BrowserUrls == UNION {[1..n -> {"/", "/contact"}] : n \in 0..MaxUrls}

\* what page.goto gives for one URL: a response with a status, no response,
\* or a rejection (navigation error or timeout)
GotoOutcomes ==
    {[kind |-> "response", status |-> st] : st \in {200, 301, 404, 500}}
        \cup {[kind |-> "null", status |-> 0], [kind |-> "throw", status |-> 0]}

\* the test that lets every response through
StatusOk_Any(status) == TRUE

\* response.status() >= 200 && response.status() < 400
StatusOk(status) == status >= 200 /\ status < 400

\* a call of fetchManyWithBrowser at its first await; browser is undefined
\* until launch resolves, thrown records an error on its way to the caller,
\* visits is the history of the navigations made
BrowserCall(urls, delay) ==
    [fn |-> "fetchManyWithBrowser", urls |-> urls, delay |-> delay, pc |-> "import",
     browser |-> "undefined", launched |-> FALSE, setup |-> 0, i |-> 0,
     results |-> {}, visits |-> <<>>, thrown |-> FALSE]

BrowserInit ==
    /\ SchedIdle
    /\ CrawlOff
    /\ retry = NoRetry
    /\ call \in {BrowserCall(urls, delay) : urls \in BrowserUrls, delay \in BOOLEAN}

BrowserAt(pc) == call.fn = "fetchManyWithBrowser" /\ call.pc = pc

\* an await of the outer try rejects: catch (err) { throw err }, then finally
BrowserThrow == call' = [call EXCEPT !.thrown = TRUE, !.pc = "closeBrowser"]

\* where the loop stands after the URL at index i: at the delay or the goto of
\* the next URL, or in the finally block after the last
LoopStep(c) ==
    IF c.i < Len(c.urls)
    THEN [c EXCEPT !.i = c.i + 1, !.pc = IF c.delay THEN "delay" ELSE "goto"]
    ELSE [c EXCEPT !.pc = "closeBrowser"]

\* await import('puppeteer')
BrowserImport ==
    /\ BrowserAt("import")
    /\ \/ call' = [call EXCEPT !.pc = "launch"]
       \/ BrowserThrow
    /\ UNCHANGED <<schedVars, crawlVars, retry>>

\* browser = await puppeteer.default.launch(...)
BrowserLaunch ==
    /\ BrowserAt("launch")
    /\ \/ call' = [call EXCEPT !.browser = "open", !.launched = TRUE, !.pc = "newPage"]
       \/ BrowserThrow
    /\ UNCHANGED <<schedVars, crawlVars, retry>>

\* const page = await browser.newPage()
BrowserNewPage ==
    /\ BrowserAt("newPage")
    /\ \/ call' = [call EXCEPT !.pc = "setup", !.setup = 1]
       \/ BrowserThrow
    /\ UNCHANGED <<schedVars, crawlVars, retry>>

\* await page.setUserAgent, page.setViewport, page.setExtraHTTPHeaders: the
\* third is followed by the head of the loop
BrowserSetup ==
    /\ BrowserAt("setup")
    /\ \/ /\ call.setup < 3
          /\ call' = [call EXCEPT !.setup = call.setup + 1]
       \/ /\ call.setup = 3
          /\ call' = LoopStep(call)
       \/ BrowserThrow
    /\ UNCHANGED <<schedVars, crawlVars, retry>>

\* if (delayMs > 0) await new Promise((r) => setTimeout(r, delayMs))
BrowserDelay ==
    /\ BrowserAt("delay")
    /\ call' = [call EXCEPT !.pc = "goto"]
    /\ UNCHANGED <<schedVars, crawlVars, retry>>

\* const response = await page.goto(url, ...): with a status that passes the
\* test the content is read next; otherwise, and in the inner catch, the URL
\* is skipped
BrowserGoto ==
    /\ BrowserAt("goto")
    /\ \E o \in GotoOutcomes :
          LET visit == [url |-> call.urls[call.i], goto |-> o, content |-> FALSE]
              seen  == [call EXCEPT !.visits = Append(call.visits, visit)]
          IN IF o.kind = "response" /\ StatusOk(o.status)
             THEN call' = [seen EXCEPT !.pc = "content"]
             ELSE call' = LoopStep(seen)
    /\ UNCHANGED <<schedVars, crawlVars, retry>>

\* const html = await page.content(); results.set(url, html), or the inner
\* catch when it rejects
BrowserContent ==
    /\ BrowserAt("content")
    /\ \/ call' = LoopStep([call EXCEPT
                      !.results = call.results \cup {call.urls[call.i]},
                      !.visits[Len(call.visits)].content = TRUE])
       \/ call' = LoopStep(call)
    /\ UNCHANGED <<schedVars, crawlVars, retry>>

\* closeBrowser(browser) up to its first await: if (!browser) return;
\* otherwise the race of browser.close() against the 5 s timer
closeBrowser ==
    /\ BrowserAt("closeBrowser")
    /\ call' = [call EXCEPT !.pc = IF call.browser = "undefined" THEN "finally" ELSE "race"]
    /\ UNCHANGED <<schedVars, crawlVars, retry>>

\* the race settles: close() resolved, or close() rejected or the timer won
\* and the catch calls browser.disconnect(), which detaches the connection
BrowserRace ==
    /\ BrowserAt("race")
    /\ \/ call' = [call EXCEPT !.browser = "closed", !.pc = "released"]
       \/ call' = [call EXCEPT !.browser = "disconnected", !.pc = "released"]
    /\ UNCHANGED <<schedVars, crawlVars, retry>>

\* await new Promise((r) => setTimeout(r, 500))
BrowserReleased ==
    /\ BrowserAt("released")
    /\ call' = [call EXCEPT !.pc = "finally"]
    /\ UNCHANGED <<schedVars, crawlVars, retry>>

\* the finally block is over: the error goes to the caller, or return results
BrowserSettle ==
    /\ BrowserAt("finally")
    /\ call' = [call EXCEPT !.pc = IF call.thrown THEN "rejected" ELSE "returned"]
    /\ UNCHANGED <<schedVars, crawlVars, retry>>

BrowserNext ==
    \/ BrowserImport
    \/ BrowserLaunch
    \/ BrowserNewPage
    \/ BrowserSetup
    \/ BrowserDelay
    \/ BrowserGoto
    \/ BrowserContent
    \/ closeBrowser
    \/ BrowserRace
    \/ BrowserReleased
    \/ BrowserSettle

BrowserSpec == BrowserInit /\ [][BrowserNext]_vars

BrowserSettled == call.fn = "fetchManyWithBrowser" /\ call.pc \in {"returned", "rejected"}

\* a launched browser has been closed or disconnected when the call settles
BrowserCleanedUp ==
    BrowserSettled =>
        /\ call.launched => call.browser \in {"closed", "disconnected"}
        /\ ~call.launched => call.browser = "undefined"

\* the URLs of the navigations that gave a response with a 2xx or 3xx status
NavigatedOk ==
    {call.visits[k].url : k \in {n \in 1..Len(call.visits) :
        /\ call.visits[n].goto.kind = "response"
        /\ call.visits[n].goto.status >= 200
        /\ call.visits[n].goto.status < 400}}

\* those of them whose page content was read after the navigation
ContentRead ==
    {call.visits[k].url : k \in {n \in 1..Len(call.visits) :
        /\ call.visits[n].goto.kind = "response"
        /\ call.visits[n].goto.status >= 200
        /\ call.visits[n].goto.status < 400
        /\ call.visits[n].content}}

\* C37 as stated: when the call returns or rejects a launched browser has
\* been closed or disconnected, and the returned map holds exactly the URLs
\* whose navigation succeeded with a 2xx/3xx status
C37_CleanupAndExactMap ==
    /\ BrowserCleanedUp
    /\ BrowserAt("returned") => call.results = NavigatedOk

\* C37: when the call returns or rejects a launched browser has been closed
\* or disconnected, and the returned map holds exactly the URLs whose
\* navigation succeeded with a 2xx/3xx status and whose content was then read
C37_CleanupAndMapOfReadPages ==
    /\ BrowserCleanedUp
    /\ BrowserAt("returned") => call.results = ContentRead
    /\ BrowserAt("rejected") => call.thrown /\ call.visits = <<>>

\* a call that returned after a timed-out close: one URL read, one refused
\* with a 404, one navigation rejected
C37_Witness ==
    /\ BrowserAt("returned")
    /\ call.browser = "disconnected"
    /\ call.results = {"/"}
    /\ \E k \in 1..Len(call.visits) : call.visits[k].goto.status = 404
    /\ \E k \in 1..Len(call.visits) : call.visits[k].goto.kind = "throw"

\* a call that rejected because page setup threw, with the browser closed
BrowserSetupThrew ==
    /\ BrowserAt("rejected")
    /\ call.launched
    /\ call.setup > 0
    /\ call.browser = "closed"

\* ============================================ a peer found by two sources
\* the hosts the discovery sources submit in the runs with two crawled
\* sources: a.com and a further agency whose pages link to the same peers
SourceDomains == {"a.com", "d.com"}

\* the extractor with extraction.concurrency 1, snowball enabled and an output
\* path
PeerInit ==
    /\ AuxIdle
    /\ config = [useBrowser |-> FALSE, concurrency |-> 1,
                 snowballEnabled |-> TRUE, csvPath |-> TRUE]
    /\ processedDomains = {}
    /\ pendingTasks = <<>>
    /\ tasks = <<>>
    /\ limitQueue = <<>>
    /\ activeCount = 0
    /\ allRows = <<>>
    /\ csvInitialized = FALSE
    /\ csvFile = <<>>
    /\ skipLog = <<>>
    /\ logsDir \in BOOLEAN
    /\ runLog = [skipped |-> <<>>, errors |-> <<>>, snowballDomains |-> 0,
                 leadsCount |-> 0, domainsProcessed |-> 0]
    /\ finishPc = "idle"
    /\ batch = {}
    /\ submissions = 0
    /\ crawlCalls = [d \in Domains \cup SourceDomains |-> 0]
    /\ csvInits = 0
    /\ waves = 0

PeerNext ==
    \/ \E d \in SourceDomains : AddDomain(d)
    \/ \E i \in 1..Len(tasks) : StartTask(i)
    \/ \E i \in 1..Len(tasks) : CrawlDone(i)
    \/ \E i \in 1..Len(tasks) : SkipAppendDone(i)
    \/ \E i \in 1..Len(tasks) : ExtractDone(i)
    \/ \E i \in 1..Len(tasks) : CsvInitDone(i)
    \/ \E i \in 1..Len(tasks) : CsvAppendDone(i)
    \/ \E i \in 1..Len(tasks) : ErrAppendDone(i)
    \/ FinishCall
    \/ FinishMkdirDone
    \/ FinishTruncateDone
    \/ FinishWaveDone
    \/ FinishWaveRejected
    \/ FinishInitCsvDone
    \/ FinishWriteLogDone

PeerSpec == PeerInit /\ [][PeerNext]_vars

\* the tasks enqueued by the snowball step
SnowballTaskIds == {i \in 1..Len(tasks) : tasks[i].depth > 0}

\* C39: runLog.totals.snowballDomains equals the number of distinct domains
\* enqueued through snowball expansion, and a peer found by several sources
\* gets one snowball task
C39_SnowballCountsDistinct ==
    /\ runLog.snowballDomains = Cardinality({tasks[i].domain : i \in SnowballTaskIds})
    /\ \A i, j \in SnowballTaskIds : tasks[i].domain = tasks[j].domain => i = j

\* the counter is the number of snowball tasks created
SnowballCountsTasks == runLog.snowballDomains = Cardinality(SnowballTaskIds)

\* ======================================================== drain liveness
\* the steps the event loop takes on its own: a queued task starts when the
\* limiter has a free slot, every awaited operation of a task or of finish
\* completes (every fetch returns or fails)
PeerProgress ==
    \/ \E i \in 1..Len(tasks) : StartTask(i)
    \/ \E i \in 1..Len(tasks) : CrawlDone(i)
    \/ \E i \in 1..Len(tasks) : SkipAppendDone(i)
    \/ \E i \in 1..Len(tasks) : ExtractDone(i)
    \/ \E i \in 1..Len(tasks) : CsvInitDone(i)
    \/ \E i \in 1..Len(tasks) : CsvAppendDone(i)
    \/ \E i \in 1..Len(tasks) : ErrAppendDone(i)
    \/ FinishMkdirDone
    \/ FinishTruncateDone
    \/ FinishWaveDone
    \/ FinishWaveRejected
    \/ FinishInitCsvDone
    \/ FinishWriteLogDone

\* the runs of PeerSpec in which no enabled step of the event loop is
\* postponed for ever; addDomain and the call of finish are left to the caller
PeerLiveSpec == PeerInit /\ [][PeerNext]_vars /\ WF_vars(PeerProgress)

\* most tasks of a run: one per submission and one per crawled source
MaxTasks == 2 * MaxSubmissions

\* every task created by addDomain or by the snowball step settles
EveryTaskSettles ==
    \A i \in 1..MaxTasks :
        (Len(tasks) >= i) ~> (Len(tasks) >= i /\ tasks[i].pc \in Settled)

\* C38: every submitted domain eventually reaches a terminal state and
\* finish(), once called, eventually returns, also with concurrency 1
C38_DrainLiveness ==
    /\ EveryTaskSettles
    /\ (finishPc = "mkdir") ~> (finishPc = "resolved")

\* finish(), once called, eventually returns or rejects
FinishSettles == (finishPc = "mkdir") ~> (finishPc \in {"resolved", "rejected"})

\* in the runs that start with the directory logs/ in place finish() returns
FinishReturnsWithLogs == logsDir => ((finishPc = "mkdir") ~> (finishPc = "resolved"))
====
